---- MODULE Spec2Model ----
(***************************************************************************)
(* A model of javac-rs: the constant pool of javac-rs-classfile            *)
(* (constpool.rs, vec.rs) and its bytecode assembler (bytecode.rs).        *)
(*                                                                         *)
(* Every operation of the Rust code is a pure operator from the state it   *)
(* borrows mutably to the new state and the Result it returns; the actions *)
(* apply these operators to the variables and record the call.             *)
(*                                                                         *)
(* TLC's integers are 32 bits wide and signed, so a u32 or u64 of the code *)
(* is a tuple of 16-bit limbs, most significant first.                     *)
(***************************************************************************)
EXTENDS Integers, Sequences, FiniteSets, TLC

VARIABLES
    entries,      \* ConstPool.entries: the slots, slot i at position i + 1
    pool_last,    \* the last store_* call: what was asked, the pool before, the Result
    issued,       \* every value stored so far with the index its store returned
    max_stack,    \* Bytecode.max_stack
    max_locals,   \* Bytecode.max_locals
    code,         \* Bytecode.code: the bytes appended so far
    stack,        \* Bytecode.stack
    bc_last,      \* the last instr_* call: what was asked, the buffer before, the Result
    bc_hist,      \* what the calls so far add up to
    the_class,    \* a Class: its version, pool, flags, names, members and attributes
    class_last,   \* the last call on the Class: what was asked, the Class before, the Result
    jvm_vec,      \* a JvmVecU1, JvmVecU2 or JvmVecU4: its width and its elements
    vec_last,     \* the last push on the vector: the vector before and the Result
    mask_flags,   \* a ClassAccessFlags: the u16 that it wraps
    flags_last,   \* the last call on the flags, and the last call made for each flag
    input,        \* the text that is parsed: its characters
    parsed        \* the rule of the grammar that was called on the text and its Result

pool_vars == <<entries, pool_last, issued>>
bc_vars == <<max_stack, max_locals, code, stack, bc_last, bc_hist>>
class_vars == <<the_class, class_last>>
vec_vars == <<jvm_vec, vec_last>>
flag_vars == <<mask_flags, flags_last>>
parser_vars == <<input, parsed>>
vars == <<entries, pool_last, issued, max_stack, max_locals, code, stack, bc_last, bc_hist,
          the_class, class_last, jvm_vec, vec_last, mask_flags, flags_last, input, parsed>>

-----------------------------------------------------------------------------
(* Bounds of the model.                                                    *)

\* store_* calls are made on a pool of fewer slots than this
MaxSlots == 4

\* instr_* calls are made on a buffer that saw fewer calls than this
MaxCalls == 2

\* the loads and stores are called at most MaxLocalCalls times on a Bytecode when
\* they are called with every index of LocalIndices
MaxLocalCalls == 2

\* the most calls made on one Class when every operation of it may be called
MaxClassCalls == 2

\* the most calls made on one Class when only its fields are worked on
MaxFieldCalls == 3

\* the most pushes made on one vector
MaxPushes == 4

\* the most stores made into the pool that is nearly full
MaxStores == 3

\* the most calls made on the class whose field is nearly full
MaxFullFieldCalls == 3

\* the most zeros written before the digits of a literal
MaxLeadingZeros == 1

\* the most underscores written between two digits of a literal
MaxSeparators == 1

\* the most calls of set and unset made on one flags value
MaxFlagCalls == 4

-----------------------------------------------------------------------------
(* Fixed-width integers.                                                   *)

U8_MAX == 255

U16_MAX == 65535

\* u32::MAX as limbs
U32_MAX == <<65535, 65535>>

\* a small natural number as a u32
U32(n) == <<n \div 65536, n % 65536>>

\* a < b on u32 limbs
U32Less(a, b) == a[1] < b[1] \/ (a[1] = b[1] /\ a[2] < b[2])

\* u16::to_be_bytes
to_be_bytes(v) == <<v \div 256, v % 256>>

\* u16::to_le_bytes
to_le_bytes(v) == <<v % 256, v \div 256>>


\* u32::to_be_bytes
to_be_bytes_u32(v) == to_be_bytes(v[1]) \o to_be_bytes(v[2])

I8_MIN == -128

I8_MAX == 127

\* the bits of an i16 as a u16: what `delta as u8` and i16::to_be_bytes start from
i16_bits(delta) == (delta + 65536) % 65536

\* Result: Ok(val) or Err(err)
Ok(v) == [ok |-> TRUE, val |-> v, err |-> "none"]

Err(e) == [ok |-> FALSE, val |-> 0, err |-> e]

\* Result::and: the first error, else the second result
ResultAnd(r1, r2) == IF r1.ok THEN r2 ELSE r1

-----------------------------------------------------------------------------
(* vec.rs: the size-limited vectors.                                       *)

\* JvmVecU2::MAX_SIZE, u16::MAX
JvmVecU2_MAX_SIZE == 65535

\* JvmVecU2::push on the elements `v`
JvmVecU2_push(v, element) ==
    IF Len(v) < JvmVecU2_MAX_SIZE
    THEN [vec |-> Append(v, element), res |-> Ok(Len(v))]
    ELSE [vec |-> v, res |-> Err("OutOfBounds")]

\* JvmVecU4::push on the elements `v`; MAX_SIZE is u32::MAX
JvmVecU4_push(v, element) ==
    IF U32Less(U32(Len(v)), U32_MAX)
    THEN [vec |-> Append(v, element), res |-> Ok(Len(v))]
    ELSE [vec |-> v, res |-> Err("OutOfBounds")]

\* JvmVecU4::extend_from_slice: all of `operands` or nothing
JvmVecU4_extend_from_slice(v, operands) ==
    IF ~U32Less(U32_MAX, U32(Len(v) + Len(operands)))
    THEN [vec |-> v \o operands, res |-> Ok(Len(v))]
    ELSE [vec |-> v, res |-> Err("OutOfBounds")]

\* A String of the caller: `text` repeated `rep` times
StringLen(s) == Len(s.text) * s.rep

\* String::into_bytes
into_bytes(s) == [i \in 1..StringLen(s) |-> s.text[((i - 1) % Len(s.text)) + 1]]

\* TryFrom<Vec<T>> for JvmVecU2<T>
JvmVecU2_try_from(s) ==
    IF StringLen(s) > JvmVecU2_MAX_SIZE
    THEN Err("SourceTooBig")
    ELSE Ok(into_bytes(s))

-----------------------------------------------------------------------------
(* constpool.rs: the entries.                                              *)

NoBytes == <<>>

Entry(tag, bytes, i1, i2, value) ==
    [tag |-> tag, bytes |-> bytes, i1 |-> i1, i2 |-> i2, value |-> value]

Empty == Entry("Empty", NoBytes, 0, 0, <<>>)

Utf8(bytes) == Entry("Utf8", bytes, 0, 0, <<>>)

ConstClassInfo(name) == Entry("Class", NoBytes, name, 0, <<>>)

ConstStringInfo(value) == Entry("String", NoBytes, value, 0, <<>>)

ConstMethodTypeInfo(descriptor) == Entry("MethodType", NoBytes, descriptor, 0, <<>>)

ConstNameAndTypeInfo(name, descriptor) ==
    Entry("NameAndType", NoBytes, name, descriptor, <<>>)

ConstFieldRefInfo(class, name_and_type) ==
    Entry("FieldRef", NoBytes, class, name_and_type, <<>>)

ConstMethodRefInfo(class, name_and_type) ==
    Entry("MethodRef", NoBytes, class, name_and_type, <<>>)

ConstInterfaceMethodRefInfo(class, name_and_type) ==
    Entry("InterfaceMethodRef", NoBytes, class, name_and_type, <<>>)

ConstIntegerInfo(value) == Entry("Integer", NoBytes, 0, 0, value)

ConstLongInfo(value) == Entry("Long", NoBytes, 0, 0, value)

\* f32::to_bits: sign, 8 bits of exponent, 23 of fraction (7 + 16)
f32_to_bits(f) == <<f.sign * 32768 + f.exp * 128 + f.frac[1], f.frac[2]>>

\* f64::to_bits: sign, 11 bits of exponent, 52 of fraction (4 + 16 + 16 + 16)
f64_to_bits(f) ==
    <<f.sign * 32768 + f.exp * 16 + f.frac[1], f.frac[2], f.frac[3], f.frac[4]>>

ConstFloatInfo_from(f) == Entry("Float", NoBytes, 0, 0, f32_to_bits(f))

ConstDoubleInfo_from(f) == Entry("Double", NoBytes, 0, 0, f64_to_bits(f))

-----------------------------------------------------------------------------
(* constpool.rs: the pool.                                                 *)

None == [some |-> FALSE, val |-> 0]

Some(v) == [some |-> TRUE, val |-> v]

PoolRet(es, res) == [entries |-> es, res |-> res]

\* the least element of a non-empty set of numbers
Least(S) == CHOOSE x \in S : \A y \in S : x <= y

\* ConstPool::new without the Empty of slot 0
ConstPool_new_no_slot_0 == <<>>

\* ConstPool::new: slot 0 holds Empty
ConstPool_new == <<Empty>>

\* raw_index_of taking the position in the vector, counted from 1, for the index
first_hit_from_1(hits) == IF hits = {} THEN None ELSE Some(Least(hits))

\* ConstPool::raw_index_of / index_of on the slots `hits` that hold an equal entry
first_hit(hits) ==
    IF hits = {} THEN None
    ELSE IF Least(hits) - 1 <= U16_MAX THEN Some(Least(hits) - 1) ELSE None

\* ConstPool::raw_index_of / index_of: the first slot holding an equal entry
index_of(es, entry) == first_hit({i \in 1..Len(es) : es[i] = entry})

\* ConstPool::size
size(es) == Len(es)

\* the Result of a push as the Result of force_store
pushed_index(es, pushed) ==
    IF pushed.res.ok
    THEN PoolRet(pushed.vec, Ok(pushed.res.val))
    ELSE PoolRet(es, Err("OutOfSpace"))

\* ConstPool::force_store
force_store(es, entry) == pushed_index(es, JvmVecU2_push(es, entry))

\* ConstPool::store that never looks the entry up
store_found_always_new(es, entry, found) == force_store(es, entry)

\* ConstPool::store, `found` being index_of(entry)
store_found(es, entry, found) ==
    IF found.some THEN PoolRet(es, Ok(found.val)) ELSE force_store(es, entry)

\* ConstPool::store
store(es, entry) == store_found(es, entry, index_of(es, entry))

\* ConstPoolEntryInfoStorage::store_entry_info
store_entry_info(es, entry) == store(es, entry)

\* store_const_utf8_info, `bytes` being the Result of try_into
store_utf8_bytes(es, bytes) ==
    IF ~bytes.ok THEN PoolRet(es, Err("VecValueTooBig"))
    ELSE store_entry_info(es, Utf8(bytes.val))

store_const_utf8_info(es, value) == store_utf8_bytes(es, JvmVecU2_try_from(value))

\* `let index = r?; self.store_entry_info(entry of index)`: the error of `r`
\* returns at once, else the entry of kind `tag` that holds the index is stored
store_of_index(r, tag) ==
    IF ~r.res.ok THEN r
    ELSE store_entry_info(r.entries, Entry(tag, NoBytes, r.res.val, 0, <<>>))

\* the same for an entry of two indices, `first` being the index issued before `r`
store_of_indices(first, r, tag) ==
    IF ~r.res.ok THEN r
    ELSE store_entry_info(r.entries, Entry(tag, NoBytes, first, r.res.val, <<>>))

store_const_class_info(es, name) ==
    store_of_index(store_const_utf8_info(es, name), "Class")

store_const_string_info(es, value) ==
    store_of_index(store_const_utf8_info(es, value), "String")

store_const_method_type_info(es, descriptor) ==
    store_of_index(store_const_utf8_info(es, descriptor), "MethodType")

\* store_const_name_and_type_info after `let name = ...?`, `r` being its Result
name_and_type_of_name(r, descriptor) ==
    IF ~r.res.ok THEN r
    ELSE store_of_indices(r.res.val, store_const_utf8_info(r.entries, descriptor),
                          "NameAndType")

store_const_name_and_type_info(es, name, descriptor) ==
    name_and_type_of_name(store_const_utf8_info(es, name), descriptor)

\* a *_ref_info store after `let class = ...?`, `r` being its Result
ref_of_class(r, name, descriptor, tag) ==
    IF ~r.res.ok THEN r
    ELSE store_of_indices(r.res.val,
                          store_const_name_and_type_info(r.entries, name, descriptor),
                          tag)

\* the shared body of the three *_ref_info stores: class, name and type, the ref
store_ref(es, class_name, name, descriptor, tag) ==
    ref_of_class(store_const_class_info(es, class_name), name, descriptor, tag)

store_const_field_ref_info(es, class_name, name, descriptor) ==
    store_ref(es, class_name, name, descriptor, "FieldRef")

store_const_method_ref_info(es, class_name, name, descriptor) ==
    store_ref(es, class_name, name, descriptor, "MethodRef")

store_const_interface_method_ref_info(es, class_name, name, descriptor) ==
    store_ref(es, class_name, name, descriptor, "InterfaceMethodRef")

store_const_integer_info(es, value) == store_entry_info(es, ConstIntegerInfo(value))

store_const_float_info(es, value) == store_entry_info(es, ConstFloatInfo_from(value))

store_const_long_info(es, value) == store_entry_info(es, ConstLongInfo(value))

store_const_double_info(es, value) == store_entry_info(es, ConstDoubleInfo_from(value))

\* ConstPool::store_const_value_info: `value` is a ConstValue
store_const_value_info(es, value) ==
    CASE value.variant = "Integer" -> store_const_integer_info(es, value.v)
      [] value.variant = "Float" -> store_const_float_info(es, value.f)
      [] value.variant = "Long" -> store_const_long_info(es, value.v)
      [] value.variant = "Double" -> store_const_double_info(es, value.f)
      [] value.variant = "String" -> store_const_string_info(es, value.s1)

-----------------------------------------------------------------------------
(* bytecode.rs: the buffer and its private helpers.                        *)

\* the fields of a Bytecode that the instructions touch
Bytecode(ms, ml, c, s) == [max_stack |-> ms, max_locals |-> ml, code |-> c, stack |-> s]

\* Bytecode::new
Bytecode_new(ml) == Bytecode(0, ml, <<>>, 0)

\* what a method taking &mut self leaves: the Bytecode and the Result
BcRet(self, res) == [self |-> self, res |-> res]

\* a.and(b) where b was evaluated after a, on the Bytecode a left: Rust evaluates
\* the argument of `and` whether or not the receiver is an error
EagerAnd(res1, r2) == BcRet(r2.self, ResultAnd(res1, r2.res))

\* u16::checked_sub
checked_sub(a, b) == IF a >= b THEN Some(a - b) ELSE None

\* u16::checked_add
checked_add(a, b) == IF a + b <= U16_MAX THEN Some(a + b) ELSE None

\* Option::and_then(|stack| stack.checked_add(inc))
and_then_checked_add(opt, inc) == IF opt.some THEN checked_add(opt.val, inc) ELSE None

\* std::cmp::max
max(a, b) == IF a >= b THEN a ELSE b

\* set_stack with an arm that forgets max_stack
set_stack_forgets_max(self, checked, follow_max) ==
    IF ~checked.some THEN BcRet(self, Err("CorruptedStack"))
    ELSE BcRet([self EXCEPT !.stack = checked.val], Ok(0))

\* self.stack = checked.ok_or(CorruptedStack)?, and then max_stack where the arm
\* of stack_update has it follow
set_stack(self, checked, follow_max) ==
    IF ~checked.some THEN BcRet(self, Err("CorruptedStack"))
    ELSE BcRet([self EXCEPT !.stack = checked.val,
                            !.max_stack = IF follow_max
                                          THEN max(self.max_stack, checked.val)
                                          ELSE self.max_stack],
               Ok(0))

\* check_local_index that lets local_index = max_locals through
check_local_index_off_by_one(self, local_index) ==
    IF local_index > self.max_locals
    THEN BcRet(self, Err("LocalIndexOutOfBounds"))
    ELSE BcRet(self, Ok(0))

\* Bytecode::check_local_index
check_local_index(self, local_index) ==
    IF local_index >= self.max_locals
    THEN BcRet(self, Err("LocalIndexOutOfBounds"))
    ELSE BcRet(self, Ok(0))

\* Bytecode::stack_update: the arms of the match in their order; the last arm binds
\* the first of the pair as `inc` and the second as `dec`
stack_update(self, dec, inc) ==
    IF dec = 0 /\ inc = 0 THEN BcRet(self, Ok(0))
    ELSE IF inc = 0 THEN set_stack(self, checked_sub(self.stack, dec), FALSE)
    ELSE IF dec = 0 THEN set_stack(self, checked_add(self.stack, inc), TRUE)
    ELSE set_stack(self, and_then_checked_add(checked_sub(self.stack, inc), dec), TRUE)

\* the Result of a push or extend of the code as a BytecodeUpdateError Result
code_pushed(self, pushed) ==
    IF pushed.res.ok
    THEN BcRet([self EXCEPT !.code = pushed.vec], Ok(pushed.res.val))
    ELSE BcRet(self, Err("OutOfSpace"))

\* Bytecode::push_instr
push_instr(self, opcode) == code_pushed(self, JvmVecU4_push(self.code, opcode))

\* Bytecode::push_ops
push_ops(self, operands) ==
    code_pushed(self, JvmVecU4_extend_from_slice(self.code, operands))

\* Bytecode::slot_size
slot_size(fat) == IF fat THEN 2 ELSE 1

\* `index as u8`
as_u8(v) == v % 256

\* ConstPoolIndex::as_u16
as_u16(index) == index

\* ConstPoolIndex::as_bytes
as_bytes(index) == to_be_bytes(index)

\* r.and(self.push_instr(opcode))
and_push_instr(r, opcode) == EagerAnd(r.res, push_instr(r.self, opcode))

\* r.and(self.push_ops(operands))
and_push_ops(r, operands) == EagerAnd(r.res, push_ops(r.self, operands))

\* r.and(self.stack_update(dec, inc))
and_stack_update(r, dec, inc) == EagerAnd(r.res, stack_update(r.self, dec, inc))

\* Bytecode::access_local
access_local(self, generic_opcode, specific_0_opcode, index) ==
    IF index <= 3 THEN push_instr(self, specific_0_opcode + as_u8(index))
    ELSE IF index < U8_MAX
    THEN and_push_ops(and_push_instr(stack_update(self, 0, 1), generic_opcode),
                      <<as_u8(index)>>)
    ELSE and_push_ops(and_push_instr(push_instr(self, 196), generic_opcode),
                      to_be_bytes(index))

\* r.and(self.access_local(generic_opcode, specific_0_opcode, index))
and_access_local(r, generic_opcode, specific_0_opcode, index) ==
    EagerAnd(r.res, access_local(r.self, generic_opcode, specific_0_opcode, index))

\* Bytecode::instr_load
instr_load(self, generic_opcode, specific_0_opcode, index, fat) ==
    and_access_local(and_stack_update(check_local_index(self, index), 0, slot_size(fat)),
                     generic_opcode, specific_0_opcode, index)

\* Bytecode::instr_store
instr_store(self, generic_opcode, specific_0_opcode, index, fat) ==
    and_access_local(and_stack_update(check_local_index(self, index), slot_size(fat), 0),
                     generic_opcode, specific_0_opcode, index)

\* self.stack_update(dec, inc).and(self.push_instr(opcode)): the body of the
\* instructions that take no operand
update_and_push(self, dec, inc, opcode) ==
    and_push_instr(stack_update(self, dec, inc), opcode)

\* the argument of `and` in instr_ldc: ldc for an index of one byte, else ldc_w
ldc_or_ldc_w(self, value) ==
    IF as_u16(value) <= U8_MAX
    THEN and_push_ops(push_instr(self, 18), <<as_u8(as_u16(value))>>)
    ELSE and_push_ops(push_instr(self, 19), to_le_bytes(value))

\* r.and(if ... { ldc } else { ldc_w })
and_ldc_or_ldc_w(r, value) == EagerAnd(r.res, ldc_or_ldc_w(r.self, value))

-----------------------------------------------------------------------------
(* The callers of the pool: what they pass in.                             *)

Str(text, rep) == [text |-> text, rep |-> rep]

NoStr == Str(<<>>, 0)

\* "a" and "b"
ShortStrings == {Str(<<97>>, 1), Str(<<98>>, 1)}

\* a string of 65536 bytes, one more than a Utf8 entry holds
LongString == Str(<<97>>, 65536)

Strings == ShortStrings \cup {LongString}

\* class name, name and descriptor of a *_ref_info store
RefArgs == ShortStrings \X {Str(<<97>>, 1), LongString} \X ShortStrings

Float(sign, exp, frac) == [sign |-> sign, exp |-> exp, frac |-> frac]

NoFloat == Float(0, 0, <<>>)

\* u32 values: 0 and 0x80000000, the bits of the float -0.0
U32Values == {<<0, 0>>, <<32768, 0>>}

\* f32 values: 0.0 and -0.0
F32Values == {Float(0, 0, <<0, 0>>), Float(1, 0, <<0, 0>>)}

\* u64 values: 0 and 0x8000000000000000, the bits of the double -0.0
U64Values == {<<0, 0, 0, 0>>, <<32768, 0, 0, 0>>}

\* f64 values: 0.0 and -0.0
F64Values == {Float(0, 0, <<0, 0, 0, 0>>), Float(1, 0, <<0, 0, 0, 0>>)}

\* a call of a store function
PoolOp(fn, s1, s2, s3, v, f, variant) ==
    [fn |-> fn, s1 |-> s1, s2 |-> s2, s3 |-> s3, v |-> v, f |-> f, variant |-> variant]

OneStringOps(fn) == {PoolOp(fn, s, NoStr, NoStr, <<>>, NoFloat, "none") : s \in Strings}

TwoStringOps(fn) ==
    {PoolOp(fn, s[1], s[2], NoStr, <<>>, NoFloat, "none") : s \in Strings \X Strings}

ThreeStringOps(fn) ==
    {PoolOp(fn, s[1], s[2], s[3], <<>>, NoFloat, "none") : s \in RefArgs}

IntOps(fn, values) == {PoolOp(fn, NoStr, NoStr, NoStr, v, NoFloat, "none") : v \in values}

FloatOps(fn, values) == {PoolOp(fn, NoStr, NoStr, NoStr, <<>>, f, "none") : f \in values}

\* the ConstValue arguments of store_const_value_info
ConstValueOps ==
    {PoolOp("store_const_value_info", NoStr, NoStr, NoStr, v, NoFloat, "Integer") :
        v \in U32Values}
    \cup {PoolOp("store_const_value_info", NoStr, NoStr, NoStr, <<>>, f, "Float") :
        f \in F32Values}
    \cup {PoolOp("store_const_value_info", NoStr, NoStr, NoStr, v, NoFloat, "Long") :
        v \in U64Values}
    \cup {PoolOp("store_const_value_info", NoStr, NoStr, NoStr, <<>>, f, "Double") :
        f \in F64Values}
    \cup {PoolOp("store_const_value_info", s, NoStr, NoStr, <<>>, NoFloat, "String") :
        s \in Strings}

\* the call `op` made on the pool `es`
pool_call(es, op) ==
    CASE op.fn = "store_const_utf8_info" -> store_const_utf8_info(es, op.s1)
      [] op.fn = "store_const_class_info" -> store_const_class_info(es, op.s1)
      [] op.fn = "store_const_string_info" -> store_const_string_info(es, op.s1)
      [] op.fn = "store_const_method_type_info" ->
             store_const_method_type_info(es, op.s1)
      [] op.fn = "store_const_name_and_type_info" ->
             store_const_name_and_type_info(es, op.s1, op.s2)
      [] op.fn = "store_const_field_ref_info" ->
             store_const_field_ref_info(es, op.s1, op.s2, op.s3)
      [] op.fn = "store_const_method_ref_info" ->
             store_const_method_ref_info(es, op.s1, op.s2, op.s3)
      [] op.fn = "store_const_interface_method_ref_info" ->
             store_const_interface_method_ref_info(es, op.s1, op.s2, op.s3)
      [] op.fn = "store_const_integer_info" -> store_const_integer_info(es, op.v)
      [] op.fn = "store_const_float_info" -> store_const_float_info(es, op.f)
      [] op.fn = "store_const_long_info" -> store_const_long_info(es, op.v)
      [] op.fn = "store_const_double_info" -> store_const_double_info(es, op.f)
      [] op.fn = "store_const_value_info" -> store_const_value_info(es, op)

NoPoolOp == PoolOp("none", NoStr, NoStr, NoStr, <<>>, NoFloat, "none")

\* the store function a ConstValue is handed to
const_value_fn(variant) ==
    CASE variant = "Integer" -> "store_const_integer_info"
      [] variant = "Float" -> "store_const_float_info"
      [] variant = "Long" -> "store_const_long_info"
      [] variant = "Double" -> "store_const_double_info"
      [] variant = "String" -> "store_const_string_info"

\* the kind and value a call stores: a ConstValue is the value it wraps
ValueOf(op) ==
    IF op.fn = "store_const_value_info"
    THEN [op EXCEPT !.fn = const_value_fn(op.variant), !.variant = "none"]
    ELSE op

-----------------------------------------------------------------------------
(* The pool as a state machine: a pool is created, then stored into.       *)

\* no Class was made
NoClass ==
    /\ the_class = <<>>
    /\ class_last = <<>>

\* no vector was made on its own
NoVec ==
    /\ jvm_vec = <<>>
    /\ vec_last = <<>>

\* no flags were made on their own
NoFlags ==
    /\ mask_flags = 0
    /\ flags_last = <<>>

\* no text was given to the parser
NoParse ==
    /\ input = <<>>
    /\ parsed = <<>>

\* a Bytecode that was made and not yet called
BytecodeInit(ml) ==
    /\ max_stack = Bytecode_new(ml).max_stack
    /\ max_locals = Bytecode_new(ml).max_locals
    /\ code = Bytecode_new(ml).code
    /\ stack = Bytecode_new(ml).stack
    /\ bc_last = [instr |-> "new", arg |-> ml, pre |-> Bytecode_new(ml), res |-> Ok(0)]
    /\ bc_hist = [calls |-> 0, all_ok |-> TRUE, peak |-> Bytecode_new(ml).stack]

InitPool ==
    /\ entries = ConstPool_new
    /\ pool_last = [op |-> NoPoolOp, pre |-> ConstPool_new, res |-> Ok(0)]
    /\ issued = {}
    /\ BytecodeInit(0)
    /\ NoFlags
    /\ NoParse
    /\ NoClass
    /\ NoVec

\* the pool and the Result `r` that a call leaves
PoolReturn(op, r) ==
    /\ entries' = r.entries
    /\ pool_last' = [op |-> op, pre |-> entries, res |-> r.res]
    /\ issued' = IF r.res.ok
                 THEN issued \cup {[value |-> ValueOf(op), index |-> r.res.val]}
                 ELSE issued
    /\ UNCHANGED <<bc_vars, class_vars, vec_vars, flag_vars, parser_vars>>

\* one call of a public store function
PoolCall(op) == PoolReturn(op, pool_call(entries, op))

StoreConstUtf8Info ==
    /\ Len(entries) < MaxSlots
    /\ \E op \in OneStringOps("store_const_utf8_info") : PoolCall(op)

StoreConstClassInfo ==
    /\ Len(entries) < MaxSlots
    /\ \E op \in OneStringOps("store_const_class_info") : PoolCall(op)

StoreConstStringInfo ==
    /\ Len(entries) < MaxSlots
    /\ \E op \in OneStringOps("store_const_string_info") : PoolCall(op)

StoreConstMethodTypeInfo ==
    /\ Len(entries) < MaxSlots
    /\ \E op \in OneStringOps("store_const_method_type_info") : PoolCall(op)

StoreConstNameAndTypeInfo ==
    /\ Len(entries) < MaxSlots
    /\ \E op \in TwoStringOps("store_const_name_and_type_info") : PoolCall(op)

StoreConstFieldRefInfo ==
    /\ Len(entries) < MaxSlots
    /\ \E op \in ThreeStringOps("store_const_field_ref_info") : PoolCall(op)

StoreConstMethodRefInfo ==
    /\ Len(entries) < MaxSlots
    /\ \E op \in ThreeStringOps("store_const_method_ref_info") : PoolCall(op)

StoreConstInterfaceMethodRefInfo ==
    /\ Len(entries) < MaxSlots
    /\ \E op \in ThreeStringOps("store_const_interface_method_ref_info") : PoolCall(op)

StoreConstIntegerInfo ==
    /\ Len(entries) < MaxSlots
    /\ \E op \in IntOps("store_const_integer_info", U32Values) : PoolCall(op)

StoreConstFloatInfo ==
    /\ Len(entries) < MaxSlots
    /\ \E op \in FloatOps("store_const_float_info", F32Values) : PoolCall(op)

StoreConstLongInfo ==
    /\ Len(entries) < MaxSlots
    /\ \E op \in IntOps("store_const_long_info", U64Values) : PoolCall(op)

StoreConstDoubleInfo ==
    /\ Len(entries) < MaxSlots
    /\ \E op \in FloatOps("store_const_double_info", F64Values) : PoolCall(op)

StoreConstValueInfo ==
    /\ Len(entries) < MaxSlots
    /\ \E op \in ConstValueOps : PoolCall(op)

NextPool ==
    \/ StoreConstUtf8Info
    \/ StoreConstClassInfo
    \/ StoreConstStringInfo
    \/ StoreConstMethodTypeInfo
    \/ StoreConstNameAndTypeInfo
    \/ StoreConstFieldRefInfo
    \/ StoreConstMethodRefInfo
    \/ StoreConstInterfaceMethodRefInfo
    \/ StoreConstIntegerInfo
    \/ StoreConstFloatInfo
    \/ StoreConstLongInfo
    \/ StoreConstDoubleInfo
    \/ StoreConstValueInfo

SpecPool == InitPool /\ [][NextPool]_vars

-----------------------------------------------------------------------------
(* The assembler as a state machine: a Bytecode is made, then instructions *)
(* are appended to it.                                                     *)

\* the max_locals that a Bytecode is made with
MaxLocalsValues == {4, 257}

\* the local indices the loads and stores are called with: either side of each
\* boundary of access_local and of each max_locals
LocalIndices == {0, 3, 4, 254, 255, 256, 257}

\* the local indices of the loads and stores that are mixed with the other
\* instructions: one index of a specific opcode and one of the generic opcode
FewLocalIndices == {0, 4}

\* the pool indices that anewarray, ldc and ldc2_w are called with
ConstPoolIndices == {255, 256}

\* the values that sipush is called with
SipushValues == {4660}

\* the Bytecode that the variables hold
Self == Bytecode(max_stack, max_locals, code, stack)

InitBytecode ==
    /\ entries = ConstPool_new
    /\ pool_last = [op |-> NoPoolOp, pre |-> ConstPool_new, res |-> Ok(0)]
    /\ issued = {}
    /\ \E ml \in MaxLocalsValues : BytecodeInit(ml)
    /\ NoFlags
    /\ NoParse
    /\ NoClass
    /\ NoVec

\* the Bytecode and the Result `r` that the call of `instr` with `arg` leaves
BcReturn(instr, arg, r) ==
    /\ max_stack' = r.self.max_stack
    /\ max_locals' = r.self.max_locals
    /\ code' = r.self.code
    /\ stack' = r.self.stack
    /\ bc_last' = [instr |-> instr, arg |-> arg, pre |-> Self, res |-> r.res]
    /\ bc_hist' = [calls |-> bc_hist.calls + 1,
                   all_ok |-> bc_hist.all_ok /\ r.res.ok,
                   peak |-> max(bc_hist.peak, r.self.stack)]
    /\ UNCHANGED <<pool_vars, class_vars, vec_vars, flag_vars, parser_vars>>

instr_aaload ==
    /\ bc_hist.calls < MaxCalls
    /\ BcReturn("aaload", 0, update_and_push(Self, 2, 1, 50))

instr_aconst_null ==
    /\ bc_hist.calls < MaxCalls
    /\ BcReturn("aconst_null", 0, update_and_push(Self, 0, 1, 1))

instr_bipush ==
    /\ bc_hist.calls < MaxCalls
    /\ BcReturn("bipush", 0, update_and_push(Self, 0, 1, 16))

instr_dup ==
    /\ bc_hist.calls < MaxCalls
    /\ BcReturn("dup", 0, update_and_push(Self, 1, 2, 89))

instr_dup2_x1 ==
    /\ bc_hist.calls < MaxCalls
    /\ BcReturn("dup2_x1", 0, update_and_push(Self, 3, 5, 93))

instr_dup2_x2 ==
    /\ bc_hist.calls < MaxCalls
    /\ BcReturn("dup2_x2", 0, update_and_push(Self, 4, 6, 93))

instr_iadd ==
    /\ bc_hist.calls < MaxCalls
    /\ BcReturn("iadd", 0, update_and_push(Self, 2, 1, 96))

instr_iand ==
    /\ bc_hist.calls < MaxCalls
    /\ BcReturn("iand", 0, update_and_push(Self, 2, 1, 126))

instr_iconst_0 ==
    /\ bc_hist.calls < MaxCalls
    /\ BcReturn("iconst_0", 0, update_and_push(Self, 0, 1, 3))

instr_idiv ==
    /\ bc_hist.calls < MaxCalls
    /\ BcReturn("idiv", 0, update_and_push(Self, 2, 1, 126))

instr_lconst_0 ==
    /\ bc_hist.calls < MaxCalls
    /\ BcReturn("lconst_0", 0, update_and_push(Self, 0, 2, 9))

instr_monitorenter ==
    /\ bc_hist.calls < MaxCalls
    /\ BcReturn("monitorenter", 0, update_and_push(Self, 1, 0, 194))

instr_monitorexit ==
    /\ bc_hist.calls < MaxCalls
    /\ BcReturn("monitorexit", 0, update_and_push(Self, 1, 0, 194))

instr_pop ==
    /\ bc_hist.calls < MaxCalls
    /\ BcReturn("pop", 0, update_and_push(Self, 1, 0, 87))

instr_pop2 ==
    /\ bc_hist.calls < MaxCalls
    /\ BcReturn("pop2", 0, update_and_push(Self, 2, 0, 181))

instr_return ==
    /\ bc_hist.calls < MaxCalls
    /\ BcReturn("return", 0, push_instr(Self, 177))

instr_anewarray ==
    /\ bc_hist.calls < MaxCalls
    /\ \E component_type \in ConstPoolIndices :
           BcReturn("anewarray", component_type,
                    and_push_ops(update_and_push(Self, 0, 1, 25), as_bytes(component_type)))

instr_ldc ==
    /\ bc_hist.calls < MaxCalls
    /\ \E value \in ConstPoolIndices :
           BcReturn("ldc", value,
                    and_ldc_or_ldc_w(stack_update(Self, 0, 1), value))

instr_ldc2_w ==
    /\ bc_hist.calls < MaxCalls
    /\ \E value \in ConstPoolIndices :
           BcReturn("ldc2_w", value,
                    and_push_ops(update_and_push(Self, 0, 2, 20), to_le_bytes(value)))

instr_sipush ==
    /\ bc_hist.calls < MaxCalls
    /\ \E value \in SipushValues :
           BcReturn("sipush", value,
                    and_push_ops(update_and_push(Self, 0, 1, 86), to_be_bytes(value)))

\* the loads and stores: `calls` bounds the calls made, `indices` are the locals
instr_aload(calls, indices) ==
    /\ bc_hist.calls < calls
    /\ \E index \in indices :
           BcReturn("aload", index, instr_load(Self, 25, 42, index, FALSE))

instr_dload(calls, indices) ==
    /\ bc_hist.calls < calls
    /\ \E index \in indices :
           BcReturn("dload", index, instr_load(Self, 24, 38, index, TRUE))

instr_fload(calls, indices) ==
    /\ bc_hist.calls < calls
    /\ \E index \in indices :
           BcReturn("fload", index, instr_load(Self, 23, 34, index, FALSE))

instr_iload(calls, indices) ==
    /\ bc_hist.calls < calls
    /\ \E index \in indices :
           BcReturn("iload", index, instr_load(Self, 21, 26, index, FALSE))

instr_lload(calls, indices) ==
    /\ bc_hist.calls < calls
    /\ \E index \in indices :
           BcReturn("lload", index, instr_load(Self, 22, 30, index, TRUE))

instr_astore(calls, indices) ==
    /\ bc_hist.calls < calls
    /\ \E index \in indices :
           BcReturn("astore", index, instr_store(Self, 58, 75, index, FALSE))

instr_dstore(calls, indices) ==
    /\ bc_hist.calls < calls
    /\ \E index \in indices :
           BcReturn("dstore", index, instr_store(Self, 57, 71, index, TRUE))

instr_fstore(calls, indices) ==
    /\ bc_hist.calls < calls
    /\ \E index \in indices :
           BcReturn("fstore", index, instr_store(Self, 56, 67, index, FALSE))

instr_istore(calls, indices) ==
    /\ bc_hist.calls < calls
    /\ \E index \in indices :
           BcReturn("istore", index, instr_store(Self, 54, 59, index, FALSE))

instr_lstore(calls, indices) ==
    /\ bc_hist.calls < calls
    /\ \E index \in indices :
           BcReturn("lstore", index, instr_store(Self, 55, 63, index, TRUE))

\* the locals and the deltas that iinc is called with: either side of the bounds
\* of its short form and of each max_locals
IincIndices == {3, 255, 256}

IincDeltas == {-129, -128, 127, 128}

\* the branch targets of goto and jsr: either side of u16::MAX
BranchOffsets == {<<0, 7>>, <<0, 65535>>, <<1, 2>>}

\* the method references of the invoke instructions and their argument counts
MethodIndices == {258}

ArgumentCounts == {0, 1, 255}

TypeDescriptors ==
    {"Byte", "Char", "Double", "Float", "Int", "Long", "Short", "Boolean", "Class", "Array"}

instr_athrow ==
    /\ bc_hist.calls < MaxCalls
    /\ BcReturn("athrow", 0, update_and_push(Self, 1, 1, 191))

instr_checkcast ==
    /\ bc_hist.calls < MaxCalls
    /\ \E target_type \in ConstPoolIndices :
           BcReturn("checkcast", target_type,
                    and_push_ops(update_and_push(Self, 3, 0, 192), as_bytes(target_type)))

\* instr_goto and instr_jsr that keep the low 16 bits of any offset
branch_always_short(self, offset, short_opcode, wide_opcode) ==
    and_push_ops(update_and_push(self, 1, 1, short_opcode), to_be_bytes(offset[2]))

\* instr_goto and instr_jsr: the short form for an offset of 16 bits, else the wide
branch(self, offset, short_opcode, wide_opcode) ==
    IF ~U32Less(U32(U16_MAX), offset)
    THEN and_push_ops(update_and_push(self, 1, 1, short_opcode), to_be_bytes(offset[2]))
    ELSE and_push_ops(update_and_push(self, 1, 1, wide_opcode), to_be_bytes_u32(offset))

instr_goto ==
    /\ bc_hist.calls < MaxCalls
    /\ \E offset \in BranchOffsets : BcReturn("goto", offset, branch(Self, offset, 167, 200))

instr_jsr ==
    /\ bc_hist.calls < MaxCalls
    /\ \E offset \in BranchOffsets : BcReturn("jsr", offset, branch(Self, offset, 168, 201))

\* Bytecode::instr_iinc
iinc(self, local_variable_index, delta) ==
    IF delta >= I8_MIN /\ delta <= I8_MAX /\ local_variable_index <= U8_MAX
    THEN and_push_ops(push_instr(self, 132),
                      <<as_u8(local_variable_index), as_u8(i16_bits(delta))>>)
    ELSE and_push_ops(and_push_ops(and_push_instr(push_instr(self, 196), 132),
                                   to_be_bytes(local_variable_index)),
                      to_be_bytes(i16_bits(delta)))

instr_iinc ==
    /\ bc_hist.calls < MaxCalls
    /\ \E local_variable_index \in IincIndices, delta \in IincDeltas :
           BcReturn("iinc", [index |-> local_variable_index, delta |-> delta],
                    iinc(Self, local_variable_index, delta))

instr_instanceof ==
    /\ bc_hist.calls < MaxCalls
    /\ \E checked_type \in ConstPoolIndices :
           BcReturn("instanceof", checked_type,
                    and_push_ops(update_and_push(Self, 1, 1, 193), to_be_bytes(checked_type)))

instr_lcmp ==
    /\ bc_hist.calls < MaxCalls
    /\ BcReturn("lcmp", 0, update_and_push(Self, 4, 1, 148))

\* the match of instr_newarray: the atype byte of a TypeDescriptor, none for a
\* Class or an Array
newarray_type(component_type) ==
    CASE component_type = "Boolean" -> Some(4)
      [] component_type = "Char" -> Some(5)
      [] component_type = "Float" -> Some(6)
      [] component_type = "Double" -> Some(7)
      [] component_type = "Byte" -> Some(8)
      [] component_type = "Short" -> Some(9)
      [] component_type = "Int" -> Some(10)
      [] component_type = "Long" -> Some(1)
      [] component_type \in {"Class", "Array"} -> None

\* instr_newarray after the match, `atype` being what the match gave
newarray(self, atype) ==
    IF ~atype.some THEN BcRet(self, Err("InvalidType"))
    ELSE and_push_ops(update_and_push(self, 0, 1, 188), <<atype.val>>)

instr_newarray ==
    /\ bc_hist.calls < MaxCalls
    /\ \E component_type \in TypeDescriptors :
           BcReturn("newarray", component_type,
                    newarray(Self, newarray_type(component_type)))

\* u8::checked_add that wraps around instead of failing
checked_add_u8_wrapping(a, b) == Some((a + b) % 256)

\* u8::checked_add
checked_add_u8(a, b) == IF a + b <= U8_MAX THEN Some(a + b) ELSE None

\* Bytecode::ZERO_BYTE_ARRAY_2
ZERO_BYTE_ARRAY_2 == <<0, 0>>

\* stack_update(pops, 0), the opcode and the index of the method: what the five
\* invoke instructions share
invoke(self, method, pops, opcode) ==
    and_push_ops(update_and_push(self, pops, 0, opcode), to_be_bytes(method))

\* an invoke of a method with a receiver after checked_add(1), `count` being its
\* Option: the ? returns TooMuchMethodParameters before anything is done
invoke_counted(self, method, count, opcode) ==
    IF ~count.some THEN BcRet(self, Err("TooMuchMethodParameters"))
    ELSE invoke(self, method, count.val, opcode)

\* instr_invokeinterface after checked_add(1)
invokeinterface_counted(self, method, count) ==
    IF ~count.some THEN BcRet(self, Err("TooMuchMethodParameters"))
    ELSE and_push_ops(invoke(self, method, count.val, 185), <<count.val, 0>>)

\* a call of an invoke instruction
InvokeArgs(method, arguments_count) ==
    [method |-> method, arguments_count |-> arguments_count]

instr_invokedynamic ==
    /\ bc_hist.calls < MaxCalls
    /\ \E bootstrap_method \in MethodIndices, arguments_count \in ArgumentCounts :
           BcReturn("invokedynamic", InvokeArgs(bootstrap_method, arguments_count),
                    and_push_ops(invoke(Self, bootstrap_method, arguments_count, 186),
                                 ZERO_BYTE_ARRAY_2))

instr_invokeinterface ==
    /\ bc_hist.calls < MaxCalls
    /\ \E method \in MethodIndices, arguments_count \in ArgumentCounts :
           BcReturn("invokeinterface", InvokeArgs(method, arguments_count),
                    invokeinterface_counted(Self, method, checked_add_u8(arguments_count, 1)))

instr_invokespecial ==
    /\ bc_hist.calls < MaxCalls
    /\ \E method \in MethodIndices, arguments_count \in ArgumentCounts :
           BcReturn("invokespecial", InvokeArgs(method, arguments_count),
                    invoke_counted(Self, method, checked_add_u8(arguments_count, 1), 183))

instr_invokestatic ==
    /\ bc_hist.calls < MaxCalls
    /\ \E method \in MethodIndices, arguments_count \in ArgumentCounts :
           BcReturn("invokestatic", InvokeArgs(method, arguments_count),
                    invoke(Self, method, arguments_count, 184))

instr_invokevirtual ==
    /\ bc_hist.calls < MaxCalls
    /\ \E method \in MethodIndices, arguments_count \in ArgumentCounts :
           BcReturn("invokevirtual", InvokeArgs(method, arguments_count),
                    invoke_counted(Self, method, checked_add_u8(arguments_count, 1), 182))

NextLocals ==
    \/ instr_aload(MaxLocalCalls, LocalIndices)
    \/ instr_dload(MaxLocalCalls, LocalIndices)
    \/ instr_fload(MaxLocalCalls, LocalIndices)
    \/ instr_iload(MaxLocalCalls, LocalIndices)
    \/ instr_lload(MaxLocalCalls, LocalIndices)
    \/ instr_astore(MaxLocalCalls, LocalIndices)
    \/ instr_dstore(MaxLocalCalls, LocalIndices)
    \/ instr_fstore(MaxLocalCalls, LocalIndices)
    \/ instr_istore(MaxLocalCalls, LocalIndices)
    \/ instr_lstore(MaxLocalCalls, LocalIndices)

SpecLocals == InitBytecode /\ [][NextLocals]_vars

NextBytecode ==
    \/ instr_aaload
    \/ instr_aconst_null
    \/ instr_bipush
    \/ instr_dup
    \/ instr_dup2_x1
    \/ instr_dup2_x2
    \/ instr_iadd
    \/ instr_iand
    \/ instr_iconst_0
    \/ instr_idiv
    \/ instr_lconst_0
    \/ instr_monitorenter
    \/ instr_monitorexit
    \/ instr_pop
    \/ instr_pop2
    \/ instr_return
    \/ instr_anewarray
    \/ instr_ldc
    \/ instr_ldc2_w
    \/ instr_sipush
    \/ instr_aload(MaxCalls, FewLocalIndices)
    \/ instr_dload(MaxCalls, FewLocalIndices)
    \/ instr_fload(MaxCalls, FewLocalIndices)
    \/ instr_iload(MaxCalls, FewLocalIndices)
    \/ instr_lload(MaxCalls, FewLocalIndices)
    \/ instr_astore(MaxCalls, FewLocalIndices)
    \/ instr_dstore(MaxCalls, FewLocalIndices)
    \/ instr_fstore(MaxCalls, FewLocalIndices)
    \/ instr_istore(MaxCalls, FewLocalIndices)
    \/ instr_lstore(MaxCalls, FewLocalIndices)

SpecBytecode == InitBytecode /\ [][NextBytecode]_vars

\* the instructions with operands and with a pair of their own, after pushes that
\* give them a stack to work on
NextOperands ==
    \/ instr_iconst_0
    \/ instr_lconst_0
    \/ instr_athrow
    \/ instr_checkcast
    \/ instr_goto
    \/ instr_jsr
    \/ instr_iinc
    \/ instr_instanceof
    \/ instr_lcmp
    \/ instr_newarray
    \/ instr_invokedynamic
    \/ instr_invokeinterface
    \/ instr_invokespecial
    \/ instr_invokestatic
    \/ instr_invokevirtual

SpecOperands == InitBytecode /\ [][NextOperands]_vars

-----------------------------------------------------------------------------
(* writer.rs, vec.rs, constpool.rs, flag.rs: what is written to a class    *)
(* file. A buffer is the sequence of the bytes written to it.              *)

\* the bytes that the writes `written`, one after the other, leave in the buffer
write_each(written) ==
    LET buffer[i \in 0..Len(written)] ==
            IF i = 0 THEN <<>> ELSE buffer[i - 1] \o written[i]
    IN buffer[Len(written)]

\* the writes of the elements of a vector of bytes
u8_written(bytes) == [i \in DOMAIN bytes |-> <<bytes[i]>>]

\* the writes of the elements of a vector of u16 or of pool indices
u16_written(values) == [i \in DOMAIN values |-> to_be_bytes(values[i])]

\* ClassfileWritable for JvmVecU2: the length as u16, then each element
JvmVecU2_write_to_classfile(written) ==
    to_be_bytes(Len(written) % 65536) \o write_each(written)

\* ClassfileWritable for JvmVecU4: the length as u32, then each element
JvmVecU4_write_to_classfile(written) ==
    to_be_bytes_u32(U32(Len(written))) \o write_each(written)

\* Tagged for ConstPoolEntry
ConstPoolEntry_tag(entry) ==
    CASE entry.tag = "Class" -> 7
      [] entry.tag = "FieldRef" -> 9
      [] entry.tag = "MethodRef" -> 10
      [] entry.tag = "InterfaceMethodRef" -> 11
      [] entry.tag = "String" -> 8
      [] entry.tag = "Integer" -> 3
      [] entry.tag = "Float" -> 4
      [] entry.tag = "Long" -> 5
      [] entry.tag = "Double" -> 6
      [] entry.tag = "NameAndType" -> 12
      [] entry.tag = "Utf8" -> 1
      [] entry.tag = "MethodType" -> 16

\* ClassfileWritable for ConstPoolEntry: nothing for Empty, else the tag and the
\* structure that the entry wraps, its fields in their order
ConstPoolEntry_write_to_classfile(entry) ==
    IF entry = Empty THEN <<>>
    ELSE <<ConstPoolEntry_tag(entry)>> \o
         CASE entry.tag = "Utf8" -> JvmVecU2_write_to_classfile(u8_written(entry.bytes))
           [] entry.tag \in {"Class", "String", "MethodType"} -> to_be_bytes(entry.i1)
           [] entry.tag \in {"NameAndType", "FieldRef", "MethodRef", "InterfaceMethodRef"} ->
                  to_be_bytes(entry.i1) \o to_be_bytes(entry.i2)
           [] entry.tag \in {"Integer", "Float", "Long", "Double"} ->
                  write_each(u16_written(entry.value))

\* ClassfileWritable for ConstPool: the vector of the slots, slot 0 included
ConstPool_write_to_classfile(es) ==
    JvmVecU2_write_to_classfile([i \in DOMAIN es |-> ConstPoolEntry_write_to_classfile(es[i])])

\* ClassfileWritable for ClassAccessFlags and FieldAccessFlags: the mask, which is
\* the bitwise or of the masks of the flags that are set, no two sharing a bit
mask_write_to_classfile(masks) ==
    LET bitor[S \in SUBSET masks] ==
            IF S = {} THEN 0
            ELSE (CHOOSE x \in S : TRUE) + bitor[S \ {CHOOSE x \in S : TRUE}]
    IN to_be_bytes(bitor[masks])

\* ClassAccessFlag::mask
ClassAccessFlag ==
    [Public |-> 1, Final |-> 16, Super |-> 32, Interface |-> 512, Abstract |-> 1024,
     Synthetic |-> 4096, Annotation |-> 8192, Enum |-> 16384]

\* FieldAccessFlag::mask
FieldAccessFlag ==
    [Public |-> 1, Private |-> 2, Protected |-> 4, Static |-> 8, Final |-> 16,
     Volatile |-> 64, Transient |-> 128, Synthetic |-> 4096, Enum |-> 16384]


-----------------------------------------------------------------------------
(* attribute.rs: the attributes, how they are made and written.            *)

\* CodeAttribute
CodeAttribute(ms, ml, c, exception_tables, attributes) ==
    [max_stack |-> ms, max_locals |-> ml, code |-> c,
     exception_tables |-> exception_tables, attributes |-> attributes]

\* the Code of an attribute that is no Code attribute
NoCode == CodeAttribute(0, 0, <<>>, <<>>, <<>>)

\* AttributeInfo: the variant `kind` with the index, the payload or the Code it wraps
AttributeInfo(kind, index, payload, body) ==
    [kind |-> kind, index |-> index, payload |-> payload, body |-> body]

NamedAttribute(name, info) == [name |-> name, info |-> info]

\* String::from of the name of a kind of attribute
AttributeName ==
    [ConstantValue |-> Str(<<67, 111, 110, 115, 116, 97, 110, 116, 86, 97, 108, 117, 101>>, 1),
     SourceFile |-> Str(<<83, 111, 117, 114, 99, 101, 70, 105, 108, 101>>, 1),
     Synthetic |-> Str(<<83, 121, 110, 116, 104, 101, 116, 105, 99>>, 1),
     Deprecated |-> Str(<<68, 101, 112, 114, 101, 99, 97, 116, 101, 100>>, 1),
     Signature |-> Str(<<83, 105, 103, 110, 97, 116, 117, 114, 101>>, 1),
     Code |-> Str(<<67, 111, 100, 101>>, 1)]

\* `Ok(NamedAttribute { name: r?, info })`, `r` being the Result of storing the name
attribute_of_name(r, info) ==
    IF ~r.res.ok THEN r ELSE PoolRet(r.entries, Ok(NamedAttribute(r.res.val, info)))

\* `let index = r?; Ok(NamedAttribute { name, info: kind { index } })`
attribute_of_index(name, r, kind) ==
    IF ~r.res.ok THEN r
    ELSE PoolRet(r.entries, Ok(NamedAttribute(name, AttributeInfo(kind, r.res.val, <<>>, NoCode))))

new_const_value_attribute(es, value) ==
    LET name == store_const_utf8_info(es, AttributeName.ConstantValue)
    IN IF ~name.res.ok THEN name
       ELSE attribute_of_index(name.res.val, store_const_value_info(name.entries, value),
                               "ConstantValue")

new_source_file_attribute(es, filename) ==
    LET name == store_const_utf8_info(es, AttributeName.SourceFile)
    IN IF ~name.res.ok THEN name
       ELSE attribute_of_index(name.res.val, store_const_utf8_info(name.entries, filename),
                               "SourceFile")

new_synthetic_attribute(es) ==
    attribute_of_name(store_const_utf8_info(es, AttributeName.Synthetic),
                      AttributeInfo("Synthetic", 0, <<>>, NoCode))

new_deprecated_attribute(es) ==
    attribute_of_name(store_const_utf8_info(es, AttributeName.Deprecated),
                      AttributeInfo("Deprecated", 0, <<>>, NoCode))

new_signature_attribute(es, signature) ==
    LET name == store_const_utf8_info(es, AttributeName.Signature)
    IN IF ~name.res.ok THEN name
       ELSE attribute_of_index(name.res.val, store_const_utf8_info(name.entries, signature),
                               "Signature")

new_custom_attribute(es, name, payload) ==
    attribute_of_name(store_const_utf8_info(es, name),
                      AttributeInfo("Custom", 0, payload, NoCode))

\* ExceptionTable of bytecode.rs, the catch type by its name
ExceptionTable(start_pc, end_pc, handler_prc, catch_type) ==
    [start_pc |-> start_pc, end_pc |-> end_pc, handler_prc |-> handler_prc,
     catch_type |-> catch_type]

\* `exception_tables.into_iter().map(|table| table.into_attribute_analog(const_pool)
\* .unwrap()).collect()` on the pool `es`: the tables in their order, each on the pool
\* the one before left; ExceptionTableInfo::new stores the catch type and keeps its
\* index for the name. A catch type that cannot be stored panics.
collect_exception_tables(es, exception_tables) ==
    LET collected[i \in 0..Len(exception_tables)] ==
            IF i = 0 THEN PoolRet(es, Ok(<<>>))
            ELSE LET stored == store_const_class_info(collected[i - 1].entries,
                                                      exception_tables[i].catch_type)
                 IN PoolRet(stored.entries,
                            Ok(Append(collected[i - 1].res.val,
                                      [exception_tables[i] EXCEPT
                                           !.catch_type = stored.res.val])))
    IN collected[Len(exception_tables)]

\* `Ok(NamedAttribute { name, info: AttributeInfo::Code(..) })`, `r` being the pool
\* and the tables that were collected
code_of_tables(name, r, ms, ml, c, attributes) ==
    PoolRet(r.entries,
            Ok(NamedAttribute(name, AttributeInfo("Code", 0, <<>>,
                   CodeAttribute(ms, ml, c, r.res.val, attributes)))))

new_code_attribute(es, ms, ml, c, exception_tables, attributes) ==
    LET name == store_const_utf8_info(es, AttributeName.Code)
    IN IF ~name.res.ok THEN name
       ELSE code_of_tables(name.res.val,
                           collect_exception_tables(name.entries, exception_tables),
                           ms, ml, c, attributes)

\* ClassfileWritable for ExceptionTableInfo
ExceptionTableInfo_write_to_classfile(table) ==
    to_be_bytes(table.start_pc) \o to_be_bytes(table.end_pc)
        \o to_be_bytes(table.handler_prc) \o to_be_bytes(table.catch_type)

RECURSIVE NamedAttribute_write_to_classfile(_)

\* the writes of the elements of a vector of attributes
attributes_written(attributes) ==
    [i \in DOMAIN attributes |-> NamedAttribute_write_to_classfile(attributes[i])]

\* a CodeAttribute written without its exception tables
CodeAttribute_write_no_tables(body) ==
    to_be_bytes(body.max_stack) \o to_be_bytes(body.max_locals)
        \o JvmVecU4_write_to_classfile(u8_written(body.code))
        \o JvmVecU2_write_to_classfile(attributes_written(body.attributes))

\* ClassfileWritable for CodeAttribute: its fields in their order
CodeAttribute_write_to_classfile(body) ==
    to_be_bytes(body.max_stack) \o to_be_bytes(body.max_locals)
        \o JvmVecU4_write_to_classfile(u8_written(body.code))
        \o JvmVecU2_write_to_classfile(
               [i \in DOMAIN body.exception_tables |->
                   ExceptionTableInfo_write_to_classfile(body.exception_tables[i])])
        \o JvmVecU2_write_to_classfile(attributes_written(body.attributes))

\* ClassfileWritable for AttributeInfo: a Custom attribute writes its payload, a
\* vector of bytes; any other is written to a temporary buffer, and the buffer is
\* written as a vector of bytes
AttributeInfo_write_to_classfile(info) ==
    JvmVecU4_write_to_classfile(u8_written(
        CASE info.kind = "Custom" -> info.payload
          [] info.kind \in {"ConstantValue", "SourceFile", "Signature"} ->
                 to_be_bytes(info.index)
          [] info.kind \in {"Synthetic", "Deprecated"} -> <<>>
          [] info.kind = "Code" -> CodeAttribute_write_to_classfile(info.body)))

\* ClassfileWritable for NamedAttribute: the name, then the info
NamedAttribute_write_to_classfile(attribute) ==
    to_be_bytes(attribute.name) \o AttributeInfo_write_to_classfile(attribute.info)

-----------------------------------------------------------------------------
(* class.rs, field.rs: the class and its members.                          *)

\* CLASSFILE_HEADER of defs.rs
CLASSFILE_HEADER == <<202, 254, 186, 190>>

\* ClassfileVersion::of
ClassfileVersion(major_version, minor_version) ==
    [major_version |-> major_version, minor_version |-> minor_version]

\* a ClassfileVersion written in the order of its fields
ClassfileVersion_write_major_first(version) ==
    to_be_bytes(version.major_version) \o to_be_bytes(version.minor_version)

\* ClassfileWritable for ClassfileVersion: the minor version comes first
ClassfileVersion_write_to_classfile(version) ==
    to_be_bytes(version.minor_version) \o to_be_bytes(version.major_version)

\* FieldInfo::new
FieldInfo_new(access_flags, name, descriptor) ==
    [access_flags |-> access_flags, name |-> name, descriptor |-> descriptor,
     attributes |-> <<>>]

\* ClassfileWritable for FieldInfo: its fields in their order
FieldInfo_write_to_classfile(field) ==
    mask_write_to_classfile({FieldAccessFlag[flag] : flag \in field.access_flags})
        \o to_be_bytes(field.name) \o to_be_bytes(field.descriptor)
        \o JvmVecU2_write_to_classfile(attributes_written(field.attributes))

\* Class::new: the names of this class and of the super class are stored in a new
\* pool; both Results are unwrapped
Class_new(version, access_flags, this_class, super_class) ==
    LET this == store_const_class_info(ConstPool_new, this_class)
        super == store_const_class_info(this.entries, super_class)
    IN [version |-> version, const_pool |-> super.entries, access_flags |-> access_flags,
        this_class |-> this.res.val, super_class |-> super.res.val,
        interfaces |-> <<>>, fields |-> <<>>, methods |-> <<>>, attributes |-> <<>>]

\* ClassfileWritable for Class
Class_write_to_classfile(self) ==
    CLASSFILE_HEADER
        \o ClassfileVersion_write_to_classfile(self.version)
        \o ConstPool_write_to_classfile(self.const_pool)
        \o mask_write_to_classfile({ClassAccessFlag[flag] : flag \in self.access_flags})
        \o to_be_bytes(self.this_class)
        \o to_be_bytes(self.super_class)
        \o JvmVecU2_write_to_classfile(u16_written(self.interfaces))
        \o JvmVecU2_write_to_classfile(
               [i \in DOMAIN self.fields |-> FieldInfo_write_to_classfile(self.fields[i])])
        \o JvmVecU2_write_to_classfile(self.methods)
        \o JvmVecU2_write_to_classfile(attributes_written(self.attributes))

\* the Class a call leaves and the Result it returns
ClassRet(self, res) == [self |-> self, res |-> res]

\* the Class with the pool that a store or the making of an attribute left
with_pool(self, r) == [self EXCEPT !.const_pool = r.entries]

\* Class::add_interface, `r` being the Result of storing the name
interface_of_name(self, r) ==
    LET pushed == JvmVecU2_push(self.interfaces, r.res.val)
    IN IF ~r.res.ok THEN ClassRet(with_pool(self, r), Err("ConstPoolStore"))
       ELSE IF ~pushed.res.ok THEN ClassRet(with_pool(self, r), Err("VecStore"))
       ELSE ClassRet([with_pool(self, r) EXCEPT !.interfaces = pushed.vec], Ok(0))

\* Class::add_field, `name` being the Result of storing the name: the descriptor is
\* stored, then the field is pushed and the Result of the push returned
field_of_name(self, access_flags, name, descriptor) ==
    LET r == store_const_utf8_info(name.entries, descriptor)
        pushed == JvmVecU2_push(self.fields, FieldInfo_new(access_flags, name.res.val, r.res.val))
    IN IF ~name.res.ok THEN ClassRet(with_pool(self, name), Err("ConstPoolStore"))
       ELSE IF ~r.res.ok THEN ClassRet(with_pool(self, r), Err("ConstPoolStore"))
       ELSE IF ~pushed.res.ok THEN ClassRet(with_pool(self, r), Err("VecStore"))
       ELSE ClassRet([with_pool(self, r) EXCEPT !.fields = pushed.vec], pushed.res)

\* Class::add_*_attribute, `created` being the Result of NamedAttribute::new_*: the
\* attribute is pushed to the attributes of the class
class_add_attribute(self, created) ==
    LET pushed == JvmVecU2_push(self.attributes, created.res.val)
    IN IF ~created.res.ok THEN ClassRet(with_pool(self, created), Err("AttributeCreate"))
       ELSE IF ~pushed.res.ok THEN ClassRet(with_pool(self, created), Err("AttributeAdd"))
       ELSE ClassRet([with_pool(self, created) EXCEPT !.attributes = pushed.vec], Ok(0))

\* the field at `field_index` after the attribute that was made is added to it; the
\* Result of the push is returned where the caller asks for it with `?`
\* (`checked`), else it is dropped
field_attribute_pushed(self, field_index, pushed, checked) ==
    IF ~pushed.res.ok
    THEN ClassRet(self, IF checked THEN Err("AttributeAdd") ELSE Ok(0))
    ELSE ClassRet([self EXCEPT !.fields[field_index + 1].attributes = pushed.vec], Ok(0))

\* a field_add_*_attribute that makes the attribute before it looks the field up
field_add_attribute_unchecked(self, field_index, created, checked) ==
    IF ~created.res.ok THEN ClassRet(with_pool(self, created), Err("AttributeCreate"))
    ELSE IF field_index >= Len(self.fields)
    THEN ClassRet(with_pool(self, created), Err("InvalidFieldIndex"))
    ELSE field_attribute_pushed(
             with_pool(self, created), field_index,
             JvmVecU2_push(self.fields[field_index + 1].attributes, created.res.val),
             checked)

\* Class::field_add_*_attribute: the field is looked up, then the attribute is made
\* (`created`, the Result of NamedAttribute::new_*) and added to the field
field_add_attribute(self, field_index, created, checked) ==
    IF field_index >= Len(self.fields) THEN ClassRet(self, Err("InvalidFieldIndex"))
    ELSE IF ~created.res.ok
    THEN ClassRet(with_pool(self, created), Err("AttributeCreate"))
    ELSE field_attribute_pushed(
             with_pool(self, created), field_index,
             JvmVecU2_push(self.fields[field_index + 1].attributes, created.res.val),
             checked)

-----------------------------------------------------------------------------
(* The class as a state machine: a Class is made, members and attributes   *)
(* are added to it, and it is written.                                     *)

\* the names of this class and of its super class: "a" and "b"
ClassNames == ShortStrings

\* the flags of the class
ClassFlagSets == {{"Public", "Final", "Super"}, {"Public", "Abstract"}}

\* the flags of a field
FieldFlagSets == {{"Private", "Static", "Final"}}

\* the indices of fields that are asked for: the first three
FieldIndices == {0, 1, 2}

\* the strings of an attribute: one that a Utf8 entry holds and one that is too long
AttributeStrings == {Str(<<98>>, 1), LongString}

\* the payloads of a custom attribute
Payloads == {<<>>, <<1, 2, 3>>}

\* the ConstValue of a ConstantValue attribute: Integer(0) and String("a")
ConstValues ==
    {op \in ConstValueOps : \/ op.variant = "Integer" /\ op.v = <<0, 0>>
                            \/ op.variant = "String" /\ op.s1 = Str(<<97>>, 1)}

\* the code of a Code attribute: none, and iconst_0, ireturn
Codes == {<<>>, <<3, 172>>}

\* the exception tables of a Code attribute: none, one and two
ExceptionTables ==
    {<<>>,
     <<ExceptionTable(0, 1, 1, Str(<<97>>, 1))>>,
     <<ExceptionTable(0, 1, 1, Str(<<97>>, 1)), ExceptionTable(0, 2, 2, Str(<<98>>, 1))>>}

\* the attributes nested in a Code attribute: none, and a custom attribute whose
\* name is the entry 1 of the pool
NestedAttributes ==
    {<<>>, <<NamedAttribute(1, AttributeInfo("Custom", 0, <<7>>, NoCode))>>}

\* the arguments of a call on the Class
ClassArg(field_index, s1, s2, value) ==
    [field_index |-> field_index, s1 |-> s1, s2 |-> s2, value |-> value]

InitClass ==
    /\ entries = ConstPool_new
    /\ pool_last = [op |-> NoPoolOp, pre |-> ConstPool_new, res |-> Ok(0)]
    /\ issued = {}
    /\ BytecodeInit(0)
    /\ NoFlags
    /\ NoParse
    /\ NoVec
    /\ \E access_flags \in ClassFlagSets, this_class \in ClassNames, super_class \in ClassNames :
           /\ the_class = Class_new(ClassfileVersion(58, 0), access_flags, this_class, super_class)
           /\ class_last = [op |-> "new", arg |-> ClassArg(0, this_class, super_class, <<>>),
                            pre |-> Class_new(ClassfileVersion(58, 0), access_flags, this_class, super_class),
                            res |-> Ok(0), calls |-> 0, added |-> 0, returned |-> {}]

\* the Class and the Result `r` that the call of `op` with `arg` leaves; `added`
\* counts the calls of add_field that returned Ok, `returned` holds what they returned
ClassReturn(op, arg, r) ==
    /\ the_class' = r.self
    /\ class_last' = [op |-> op, arg |-> arg, pre |-> the_class, res |-> r.res,
                      calls |-> IF op = "write_to_classfile"
                                THEN class_last.calls ELSE class_last.calls + 1,
                      added |-> IF op = "add_field" /\ r.res.ok
                                THEN class_last.added + 1 ELSE class_last.added,
                      returned |-> IF op = "add_field" /\ r.res.ok
                                   THEN class_last.returned \cup {r.res.val}
                                   ELSE class_last.returned]
    /\ UNCHANGED <<pool_vars, bc_vars, vec_vars, flag_vars, parser_vars>>

add_interface(calls) ==
    /\ class_last.calls < calls
    /\ \E interface \in ClassNames :
           ClassReturn("add_interface", ClassArg(0, interface, NoStr, <<>>),
               interface_of_name(the_class,
                   store_const_class_info(the_class.const_pool, interface)))

add_field(calls) ==
    /\ class_last.calls < calls
    /\ \E access_flags \in FieldFlagSets, descriptor \in AttributeStrings :
           ClassReturn("add_field", ClassArg(0, Str(<<97>>, 1), descriptor, access_flags),
               field_of_name(the_class, access_flags,
                   store_const_utf8_info(the_class.const_pool, Str(<<97>>, 1)), descriptor))

add_source_file_attribute(calls) ==
    /\ class_last.calls < calls
    /\ \E filename \in AttributeStrings :
           ClassReturn("add_source_file_attribute", ClassArg(0, filename, NoStr, <<>>),
               class_add_attribute(the_class,
                   new_source_file_attribute(the_class.const_pool, filename)))

add_synthetic_attribute(calls) ==
    /\ class_last.calls < calls
    /\ ClassReturn("add_synthetic_attribute", ClassArg(0, NoStr, NoStr, <<>>),
           class_add_attribute(the_class, new_synthetic_attribute(the_class.const_pool)))

add_deprecated_attribute(calls) ==
    /\ class_last.calls < calls
    /\ ClassReturn("add_deprecated_attribute", ClassArg(0, NoStr, NoStr, <<>>),
           class_add_attribute(the_class, new_deprecated_attribute(the_class.const_pool)))

add_signature_attribute(calls) ==
    /\ class_last.calls < calls
    /\ \E signature \in AttributeStrings :
           ClassReturn("add_signature_attribute", ClassArg(0, signature, NoStr, <<>>),
               class_add_attribute(the_class,
                   new_signature_attribute(the_class.const_pool, signature)))

add_custom_attribute(calls) ==
    /\ class_last.calls < calls
    /\ \E name \in AttributeStrings, payload \in Payloads :
           ClassReturn("add_custom_attribute", ClassArg(0, name, NoStr, payload),
               class_add_attribute(the_class,
                   new_custom_attribute(the_class.const_pool, name, payload)))

\* Attributable for Class::add_attribute of the attribute that
\* NamedAttribute::new_code_attribute makes in the pool of the class
add_attribute(calls) ==
    /\ class_last.calls < calls
    /\ \E c \in Codes, exception_tables \in ExceptionTables, attributes \in NestedAttributes :
           ClassReturn("add_attribute", ClassArg(0, NoStr, NoStr, <<c, exception_tables, attributes>>),
               class_add_attribute(the_class,
                   new_code_attribute(the_class.const_pool, 1, 0, c,
                                      exception_tables, attributes)))

field_add_const_value_attribute(calls) ==
    /\ class_last.calls < calls
    /\ \E field_index \in FieldIndices, value \in ConstValues :
           ClassReturn("field_add_const_value_attribute",
               ClassArg(field_index, NoStr, NoStr, value),
               field_add_attribute(the_class, field_index,
                   new_const_value_attribute(the_class.const_pool, value), FALSE))

field_add_synthetic_attribute(calls) ==
    /\ class_last.calls < calls
    /\ \E field_index \in FieldIndices :
           ClassReturn("field_add_synthetic_attribute",
               ClassArg(field_index, NoStr, NoStr, <<>>),
               field_add_attribute(the_class, field_index,
                   new_synthetic_attribute(the_class.const_pool), TRUE))

field_add_deprecated_attribute(calls) ==
    /\ class_last.calls < calls
    /\ \E field_index \in FieldIndices :
           ClassReturn("field_add_deprecated_attribute",
               ClassArg(field_index, NoStr, NoStr, <<>>),
               field_add_attribute(the_class, field_index,
                   new_deprecated_attribute(the_class.const_pool), TRUE))

field_add_signature_attribute(calls) ==
    /\ class_last.calls < calls
    /\ \E field_index \in FieldIndices, signature \in AttributeStrings :
           ClassReturn("field_add_signature_attribute",
               ClassArg(field_index, signature, NoStr, <<>>),
               field_add_attribute(the_class, field_index,
                   new_signature_attribute(the_class.const_pool, signature), TRUE))

field_add_custom_attribute(calls) ==
    /\ class_last.calls < calls
    /\ \E field_index \in FieldIndices, payload \in Payloads :
           ClassReturn("field_add_custom_attribute",
               ClassArg(field_index, Str(<<98>>, 1), NoStr, payload),
               field_add_attribute(the_class, field_index,
                   new_custom_attribute(the_class.const_pool, Str(<<98>>, 1), payload), TRUE))

\* ClassfileWritable for Class::write_to_classfile: the bytes that are in the
\* buffer. The class is borrowed, not changed, so this is no call that counts.
write_to_classfile(calls) ==
    /\ class_last.calls <= calls
    /\ class_last.op # "write_to_classfile"
    /\ ClassReturn("write_to_classfile", ClassArg(0, NoStr, NoStr, <<>>),
           ClassRet(the_class, Ok(Class_write_to_classfile(the_class))))

\* a class of any members and attributes, written at any time
NextClass ==
    \/ add_interface(MaxClassCalls)
    \/ add_field(MaxClassCalls)
    \/ add_source_file_attribute(MaxClassCalls)
    \/ add_synthetic_attribute(MaxClassCalls)
    \/ add_deprecated_attribute(MaxClassCalls)
    \/ add_signature_attribute(MaxClassCalls)
    \/ add_custom_attribute(MaxClassCalls)
    \/ add_attribute(MaxClassCalls)
    \/ field_add_const_value_attribute(MaxClassCalls)
    \/ field_add_synthetic_attribute(MaxClassCalls)
    \/ field_add_deprecated_attribute(MaxClassCalls)
    \/ field_add_signature_attribute(MaxClassCalls)
    \/ field_add_custom_attribute(MaxClassCalls)
    \/ write_to_classfile(MaxClassCalls)

SpecClass == InitClass /\ [][NextClass]_vars

\* the fields of a class and their attributes, in longer runs
NextFields ==
    \/ add_field(MaxFieldCalls)
    \/ field_add_const_value_attribute(MaxFieldCalls)
    \/ field_add_synthetic_attribute(MaxFieldCalls)
    \/ field_add_deprecated_attribute(MaxFieldCalls)
    \/ field_add_signature_attribute(MaxFieldCalls)
    \/ field_add_custom_attribute(MaxFieldCalls)

SpecFields == InitClass /\ [][NextFields]_vars

-----------------------------------------------------------------------------
(* vec.rs: a vector on its own, of any of the three widths. A vector of up *)
(* to 2^32 - 1 elements is held as the number `fill` of elements that     *)
(* were pushed first and the elements `rest` that were pushed after them.  *)

\* a u32 and a small number added, without overflow
U32Plus(a, n) == <<a[1] + (a[2] + n) \div 65536, (a[2] + n) % 65536>>

\* JvmVecU1::MAX_SIZE, JvmVecU2::MAX_SIZE and JvmVecU4::MAX_SIZE as u32
JvmVec_MAX_SIZE == [U1 |-> <<0, 255>>, U2 |-> <<0, 65535>>, U4 |-> <<65535, 65535>>]

JvmVec(width, fill, rest) == [width |-> width, fill |-> fill, rest |-> rest]

\* len: the length of the Vec as the size type
JvmVec_len(self) == U32Plus(self.fill, Len(self.rest))

\* a push that takes an element as long as the length is at most MAX_SIZE
JvmVec_push_one_more(self, element) ==
    IF ~U32Less(JvmVec_MAX_SIZE[self.width], JvmVec_len(self))
    THEN [vec |-> [self EXCEPT !.rest = Append(@, element)], res |-> Ok(JvmVec_len(self))]
    ELSE [vec |-> self, res |-> Err("OutOfBounds")]

\* push of JvmVecU1, JvmVecU2 and JvmVecU4
JvmVec_push(self, element) ==
    IF U32Less(JvmVec_len(self), JvmVec_MAX_SIZE[self.width])
    THEN [vec |-> [self EXCEPT !.rest = Append(@, element)], res |-> Ok(JvmVec_len(self))]
    ELSE [vec |-> self, res |-> Err("OutOfBounds")]

\* the vector is new, or pushes of 0 have filled it up to two elements less than
\* it holds
InitVec ==
    /\ entries = ConstPool_new
    /\ pool_last = [op |-> NoPoolOp, pre |-> ConstPool_new, res |-> Ok(0)]
    /\ issued = {}
    /\ BytecodeInit(0)
    /\ NoFlags
    /\ NoParse
    /\ NoClass
    /\ \E width \in {"U1", "U2", "U4"} :
           \E fill \in {<<0, 0>>, <<JvmVec_MAX_SIZE[width][1], JvmVec_MAX_SIZE[width][2] - 2>>} :
               /\ jvm_vec = JvmVec(width, fill, <<>>)
               /\ vec_last = [pre |-> JvmVec(width, fill, <<>>), element |-> 0,
                              res |-> Ok(<<0, 0>>), pushes |-> 0]

push ==
    /\ vec_last.pushes < MaxPushes
    /\ \E element \in {1, 2} :
           /\ jvm_vec' = JvmVec_push(jvm_vec, element).vec
           /\ vec_last' = [pre |-> jvm_vec, element |-> element,
                           res |-> JvmVec_push(jvm_vec, element).res,
                           pushes |-> vec_last.pushes + 1]
           /\ UNCHANGED <<pool_vars, bc_vars, class_vars, flag_vars, parser_vars>>

NextVec == push

SpecVec == InitVec /\ [][NextVec]_vars

-----------------------------------------------------------------------------
(* A field whose attributes run out of room. The attributes of the field   *)
(* are a JvmVecU2; they are held as a vector of a count and the elements   *)
(* pushed after it, the pool and the other members of the class as before. *)

\* Class::field_add_*_attribute where the attributes of the field are such a vector
field_add_attribute_counted(self, field_index, created, checked) ==
    IF field_index >= Len(self.fields) THEN ClassRet(self, Err("InvalidFieldIndex"))
    ELSE IF ~created.res.ok
    THEN ClassRet(with_pool(self, created), Err("AttributeCreate"))
    ELSE field_attribute_pushed(
             with_pool(self, created), field_index,
             JvmVec_push(self.fields[field_index + 1].attributes, created.res.val),
             checked)

\* the class with the one field "a" of the descriptor "b", which holds `fill` attributes
ClassOfField(fill) ==
    [field_of_name(Class_new(ClassfileVersion(58, 0), {"Public", "Super"},
                             Str(<<97>>, 1), Str(<<98>>, 1)),
                   {"Private", "Static", "Final"},
                   store_const_utf8_info(
                       Class_new(ClassfileVersion(58, 0), {"Public", "Super"},
                                 Str(<<97>>, 1), Str(<<98>>, 1)).const_pool,
                       Str(<<97>>, 1)),
                   Str(<<98>>, 1)).self
        EXCEPT !.fields[1].attributes = JvmVec("U2", fill, <<>>)]

\* the field holds two attributes less than it can hold
InitFieldFull ==
    /\ entries = ConstPool_new
    /\ pool_last = [op |-> NoPoolOp, pre |-> ConstPool_new, res |-> Ok(0)]
    /\ issued = {}
    /\ BytecodeInit(0)
    /\ NoFlags
    /\ NoParse
    /\ NoVec
    /\ the_class = ClassOfField(<<0, JvmVecU2_MAX_SIZE - 2>>)
    /\ class_last = [op |-> "add_field", arg |-> ClassArg(0, Str(<<97>>, 1), Str(<<98>>, 1), <<>>),
                     pre |-> ClassOfField(<<0, JvmVecU2_MAX_SIZE - 2>>),
                     res |-> Ok(0), calls |-> 0, added |-> 1, returned |-> {0}]

FieldAddConstValueWhenFull ==
    /\ class_last.calls < MaxFullFieldCalls
    /\ \E field_index \in {0, 1}, value \in ConstValues :
           ClassReturn("field_add_const_value_attribute",
               ClassArg(field_index, NoStr, NoStr, value),
               field_add_attribute_counted(the_class, field_index,
                   new_const_value_attribute(the_class.const_pool, value), FALSE))

FieldAddSyntheticWhenFull ==
    /\ class_last.calls < MaxFullFieldCalls
    /\ \E field_index \in {0, 1} :
           ClassReturn("field_add_synthetic_attribute",
               ClassArg(field_index, NoStr, NoStr, <<>>),
               field_add_attribute_counted(the_class, field_index,
                   new_synthetic_attribute(the_class.const_pool), TRUE))

FieldAddDeprecatedWhenFull ==
    /\ class_last.calls < MaxFullFieldCalls
    /\ \E field_index \in {0, 1} :
           ClassReturn("field_add_deprecated_attribute",
               ClassArg(field_index, NoStr, NoStr, <<>>),
               field_add_attribute_counted(the_class, field_index,
                   new_deprecated_attribute(the_class.const_pool), TRUE))

FieldAddSignatureWhenFull ==
    /\ class_last.calls < MaxFullFieldCalls
    /\ \E field_index \in {0, 1}, signature \in AttributeStrings :
           ClassReturn("field_add_signature_attribute",
               ClassArg(field_index, signature, NoStr, <<>>),
               field_add_attribute_counted(the_class, field_index,
                   new_signature_attribute(the_class.const_pool, signature), TRUE))

FieldAddCustomWhenFull ==
    /\ class_last.calls < MaxFullFieldCalls
    /\ \E field_index \in {0, 1}, payload \in Payloads :
           ClassReturn("field_add_custom_attribute",
               ClassArg(field_index, Str(<<98>>, 1), NoStr, payload),
               field_add_attribute_counted(the_class, field_index,
                   new_custom_attribute(the_class.const_pool, Str(<<98>>, 1), payload), TRUE))

NextFieldFull ==
    \/ FieldAddConstValueWhenFull
    \/ FieldAddSyntheticWhenFull
    \/ FieldAddDeprecatedWhenFull
    \/ FieldAddSignatureWhenFull
    \/ FieldAddCustomWhenFull

SpecFieldFull == InitFieldFull /\ [][NextFieldFull]_vars

-----------------------------------------------------------------------------
(* The pool when it runs out of slots. Its entries are a JvmVecU2 of 65535 *)
(* slots at most; the vector is held as the number `fill` of the slots     *)
(* that were filled first, which hold Empty and the integers 0, 1, 2, ...  *)
(* in this order, and the entries `rest` that were pushed after them.      *)

\* the slots among the first `fill` that hold `entry`
FilledSlots(self, entry) ==
    IF entry = Empty THEN {0}
    ELSE IF /\ entry.tag = "Integer"
            /\ entry.value[1] = 0
            /\ entry.value[2] + 1 < self.fill[2]
    THEN {entry.value[2] + 1}
    ELSE {}

\* ConstPool::index_of / raw_index_of on such a vector
ConstPool_index_of(self, entry) ==
    first_hit({slot + 1 : slot \in FilledSlots(self, entry)}
              \cup {self.fill[2] + i : i \in {j \in DOMAIN self.rest : self.rest[j] = entry}})

\* a store that pushes the entry without looking it up
ConstPool_store_no_lookup(self, entry, found, pushed) ==
    IF pushed.res.ok THEN PoolRet(pushed.vec, Ok(pushed.res.val[2]))
    ELSE PoolRet(self, Err("OutOfSpace"))

\* ConstPool::store with force_store, `found` being index_of(entry) and `pushed` what
\* self.entries.push(entry) would leave
ConstPool_store_found(self, entry, found, pushed) ==
    IF found.some THEN PoolRet(self, Ok(found.val))
    ELSE IF pushed.res.ok THEN PoolRet(pushed.vec, Ok(pushed.res.val[2]))
    ELSE PoolRet(self, Err("OutOfSpace"))

\* ConstPool::store / store_entry_info on such a vector
ConstPool_store(self, entry) ==
    ConstPool_store_found(self, entry, ConstPool_index_of(self, entry),
                          JvmVec_push(self, entry))

\* `let name = r?; self.store_entry_info(ConstClassInfo { name })`
ConstPool_store_class_of(r) ==
    IF ~r.res.ok THEN r ELSE ConstPool_store(r.entries, ConstClassInfo(r.res.val))

\* the integers that are stored: two that the pool holds from the start and two
\* that it does not hold
FullIntegers == {<<0, 0>>, <<0, 65531>>, <<0, 65532>>, <<32768, 0>>}

\* the pool holds two slots less than it can hold
InitFull ==
    /\ entries = ConstPool_new
    /\ pool_last = [op |-> NoPoolOp, pre |-> ConstPool_new, res |-> Ok(0)]
    /\ issued = {}
    /\ BytecodeInit(0)
    /\ NoFlags
    /\ NoParse
    /\ NoClass
    /\ jvm_vec = JvmVec("U2", <<0, JvmVecU2_MAX_SIZE - 2>>, <<>>)
    /\ vec_last = [pre |-> JvmVec("U2", <<0, JvmVecU2_MAX_SIZE - 2>>, <<>>),
                   element |-> NoPoolOp, res |-> Ok(0), pushes |-> 0]

\* the pool and the Result `r` that the call `op` leaves
FullReturn(op, r) ==
    /\ jvm_vec' = r.entries
    /\ vec_last' = [pre |-> jvm_vec, element |-> op, res |-> r.res,
                    pushes |-> vec_last.pushes + 1]
    /\ UNCHANGED <<pool_vars, bc_vars, class_vars, flag_vars, parser_vars>>

\* store_const_integer_info on the pool that is nearly full
StoreIntegerWhenFull ==
    /\ vec_last.pushes < MaxStores
    /\ \E op \in IntOps("store_const_integer_info", FullIntegers) :
           FullReturn(op, ConstPool_store(jvm_vec, ConstIntegerInfo(op.v)))

\* store_const_utf8_info of a string that a Utf8 entry holds
StoreUtf8WhenFull ==
    /\ vec_last.pushes < MaxStores
    /\ \E op \in {o \in OneStringOps("store_const_utf8_info") : o.s1 \in ShortStrings} :
           FullReturn(op, ConstPool_store(jvm_vec, Utf8(into_bytes(op.s1))))

\* store_const_class_info of such a string
StoreClassWhenFull ==
    /\ vec_last.pushes < MaxStores
    /\ \E op \in {o \in OneStringOps("store_const_class_info") : o.s1 \in ShortStrings} :
           FullReturn(op, ConstPool_store_class_of(
                              ConstPool_store(jvm_vec, Utf8(into_bytes(op.s1)))))

NextFull ==
    \/ StoreIntegerWhenFull
    \/ StoreUtf8WhenFull
    \/ StoreClassWhenFull

SpecFull == InitFull /\ [][NextFull]_vars

-----------------------------------------------------------------------------
(* flag.rs: the flags that mask_flags! makes, ClassAccessFlags among them: *)
(* a u16 that is made by none() and changed by set and unset.              *)

\* the positions of the bits of a u16 that are 1
u16_bits(n) == {i \in 0..15 : (n \div 2^i) % 2 = 1}

\* the u16 whose bits at the positions `bits` are 1
u16_of_bits(bits) ==
    LET above[i \in 0..16] ==
            IF i = 16 THEN 0 ELSE (IF i \in bits THEN 2^i ELSE 0) + above[i + 1]
    IN above[0]

\* Flags::none: `Self($default)`
Flags_none == 0

\* Flags::set: `self.0 |= flag.mask()`
Flags_set(self, flag) ==
    u16_of_bits(u16_bits(self) \cup u16_bits(ClassAccessFlag[flag]))

\* an unset that flips the bits of the flag
Flags_unset_flipping(self, flag) ==
    u16_of_bits((u16_bits(self) \ u16_bits(ClassAccessFlag[flag]))
                    \cup (u16_bits(ClassAccessFlag[flag]) \ u16_bits(self)))

\* Flags::unset: `self.0 &= !flag.mask()`
Flags_unset(self, flag) ==
    u16_of_bits(u16_bits(self) \cap u16_bits(U16_MAX - ClassAccessFlag[flag]))

\* Flags::is_set: `self.0 & flag.mask() != $default`
Flags_is_set(self, flag) ==
    u16_of_bits(u16_bits(self) \cap u16_bits(ClassAccessFlag[flag])) # Flags_none

\* ClassfileWritable for ClassAccessFlags: `self.mask().write_to_classfile(buffer)`
ClassAccessFlags_write_to_classfile(self) == to_be_bytes(self)

\* the flags as none() leaves them
InitFlags ==
    /\ entries = ConstPool_new
    /\ pool_last = [op |-> NoPoolOp, pre |-> ConstPool_new, res |-> Ok(0)]
    /\ issued = {}
    /\ BytecodeInit(0)
    /\ NoClass
    /\ NoVec
    /\ NoParse
    /\ mask_flags = Flags_none
    /\ flags_last = [op |-> "none", flag |-> "", pre |-> Flags_none, calls |-> 0,
                     recent |-> [flag \in DOMAIN ClassAccessFlag |-> "none"]]

\* the flags that the call `op` for `flag` leaves
FlagsReturn(op, flag, self) ==
    /\ mask_flags' = self
    /\ flags_last' = [op |-> op, flag |-> flag, pre |-> mask_flags,
                      calls |-> flags_last.calls + 1,
                      recent |-> [flags_last.recent EXCEPT ![flag] = op]]
    /\ UNCHANGED <<pool_vars, bc_vars, class_vars, vec_vars, parser_vars>>

set ==
    /\ flags_last.calls < MaxFlagCalls
    /\ \E flag \in DOMAIN ClassAccessFlag :
           FlagsReturn("set", flag, Flags_set(mask_flags, flag))

unset ==
    /\ flags_last.calls < MaxFlagCalls
    /\ \E flag \in DOMAIN ClassAccessFlag :
           FlagsReturn("unset", flag, Flags_unset(mask_flags, flag))

NextFlags ==
    \/ set
    \/ unset

SpecFlags == InitFlags /\ [][NextFlags]_vars

-----------------------------------------------------------------------------
(* parser/literals.rs: how the digits of a literal become a number. An     *)
(* unsigned integer of w * 16 bits is held as its w limbs of 16 bits, the  *)
(* most significant first; text is held as the sequence of its characters. *)

\* the characters that stand for the digits 0 to 15
DigitChars ==
    <<{"0"}, {"1"}, {"2"}, {"3"}, {"4"}, {"5"}, {"6"}, {"7"}, {"8"}, {"9"},
      {"a", "A"}, {"b", "B"}, {"c", "C"}, {"d", "D"}, {"e", "E"}, {"f", "F"}>>

\* char::to_digit
to_digit(c, radix) ==
    IF \E d \in 1..radix : c \in DigitChars[d]
    THEN Some((CHOOSE d \in 1..radix : c \in DigitChars[d]) - 1)
    ELSE None

\* a multiplication and addition that wrap around
wrapping_mul_add(acc, radix, d) ==
    LET carry[i \in 1..Len(acc) + 1] ==
            IF i = Len(acc) + 1 THEN d
            ELSE (acc[i] * radix + carry[i + 1]) \div 65536
    IN Some(SubSeq([i \in 1..Len(acc) |-> (acc[i] * radix + carry[i + 1]) % 65536],
                        1, Len(acc)))

\* checked_mul(radix) and checked_add(d) on the limbs `acc`
checked_mul_add(acc, radix, d) ==
    LET carry[i \in 1..Len(acc) + 1] ==
            IF i = Len(acc) + 1 THEN d
            ELSE (acc[i] * radix + carry[i + 1]) \div 65536
    IN IF carry[1] > 0 THEN None
       ELSE Some(SubSeq([i \in 1..Len(acc) |-> (acc[i] * radix + carry[i + 1]) % 65536],
                        1, Len(acc)))

\* u32::from_str_radix, u64::from_str_radix and i64::from_str_radix: the sign, if
\* there is one before a digit, then the digits, each checked against the radix
\* and the number against the width
from_str_radix(src, radix, w, is_signed_ty) ==
    LET digits == IF Len(src) > 1 /\ src[1] \in {"+", "-"} THEN Tail(src) ELSE src
        acc[i \in 0..Len(digits)] ==
            IF i = 0 THEN Some(SubSeq([j \in 1..w |-> 0], 1, w))
            ELSE CHOOSE next \in
                     {IF ~result.some \/ ~x.some THEN None
                      ELSE checked_mul_add(result.val, radix, x.val) :
                          result \in {acc[i - 1]}, x \in {to_digit(digits[i], radix)}} : TRUE
        is_negative == Len(src) > 1 /\ src[1] = "-"
        abs == acc[Len(digits)].val
    IN IF src = <<>> \/ ~acc[Len(digits)].some THEN Err("ParseIntError")
       ELSE IF is_negative /\ ~is_signed_ty THEN Err("ParseIntError")
       ELSE IF is_signed_ty /\ ~is_negative /\ abs[1] >= 32768 THEN Err("ParseIntError")
       ELSE IF is_signed_ty /\ is_negative
               /\ (abs[1] > 32768 \/ (abs[1] = 32768 /\ \E j \in 2..w : abs[j] # 0))
       THEN Err("ParseIntError")
       ELSE Ok([neg |-> is_negative /\ \E j \in 1..w : abs[j] # 0, abs |-> abs])

\* PrimitiveFrom<u32> for i32: `source as i32`
i32_from(source) ==
    IF source[1] >= 32768 THEN (source[1] - 65536) * 65536 + source[2]
    ELSE source[1] * 65536 + source[2]

\* PrimitiveFrom<u64> for i64: `source as i64`, held as the sign and the absolute
\* value, which for a source of 2^63 and more is 2^64 - source
i64_from(source) ==
    LET borrow[i \in 1..5] ==
            IF i = 5 THEN 0
            ELSE IF source[i] + borrow[i + 1] > 0 THEN 1 ELSE 0
    IN IF source[1] >= 32768
       THEN [neg |-> TRUE,
             abs |-> SubSeq([i \in 1..4 |-> (65536 - source[i] - borrow[i + 1]) % 65536],
                           1, 4)]
       ELSE [neg |-> FALSE, abs |-> source]

\* parse_integer_number::<F, T>, F being the unsigned type of w limbs
parse_integer_number(digits, radix, w) ==
    LET value == from_str_radix(SelectSeq(digits, LAMBDA c : c # "_"), radix, w, FALSE)
    IN IF ~value.ok THEN Err("integer literal cannot be parsed")
       ELSE Ok(IF w = 2 THEN i32_from(value.val.abs) ELSE i64_from(value.val.abs))

\* parse_number_i32
parse_number_i32(digits, radix) == parse_integer_number(digits, radix, 2)

\* parse_number_i64
parse_number_i64(digits, radix) == parse_integer_number(digits, radix, 4)

-----------------------------------------------------------------------------
(* parser/mod.rs: the grammar. A rule is called on the text `s` at the     *)
(* position `p` of a character; it matches up to a position and yields a   *)
(* value, or it fails.                                                     *)

\* the rule matched the characters before `pos` and yields `val`
Matched(pos, val) == [ok |-> TRUE, pos |-> pos, val |-> val]

\* the rule failed
Failed == [ok |-> FALSE, pos |-> 0, val |-> <<>>]

\* the first of the alternatives, in their order, that matched
ordered_choice(alternatives) ==
    CHOOSE first \in
        {IF \E i \in DOMAIN tried : tried[i].ok
         THEN tried[Least({i \in DOMAIN tried : tried[i].ok})]
         ELSE Failed : tried \in {alternatives}} : TRUE

\* the character at the position p, "" at the end of the text
char_at(s, p) == IF p \in DOMAIN s THEN s[p] ELSE ""

\* `rule*` where the rule matches one character of `chars`: the position after them
zero_or_more(s, p, chars) ==
    LET after[q \in p..Len(s) + 1] == IF char_at(s, q) \in chars THEN after[q + 1] ELSE q
    IN after[p]

\* binary_digit, octal_digit, decimal_digit, hex_digit: the characters they match
digit_rule ==
    [binary |-> {"0", "1"},
     octal |-> {"0", "1", "2", "3", "4", "5", "6", "7"},
     decimal |-> {"0", "1", "2", "3", "4", "5", "6", "7", "8", "9"},
     hex |-> {"0", "1", "2", "3", "4", "5", "6", "7", "8", "9",
              "A", "B", "C", "D", "E", "F", "a", "b", "c", "d", "e", "f"}]

\* number(digit): `$(digit() (digit_separator()* digit()+)*)`, failed where p is 0
number(s, p, digits) ==
    LET more[q \in 1..Len(s) + 1] ==
            IF zero_or_more(s, zero_or_more(s, q, {"_"}), digits) > zero_or_more(s, q, {"_"})
            THEN more[zero_or_more(s, zero_or_more(s, q, {"_"}), digits)]
            ELSE q
    IN IF p > 0 /\ char_at(s, p) \in digits
       THEN Matched(more[p + 1], SubSeq(s, p, more[p + 1] - 1))
       ELSE Failed

\* a prefix of a number, "0" and one of `marks`: the position after it, or 0
number_prefix(s, p, marks) ==
    IF char_at(s, p) = "0" /\ char_at(s, p + 1) \in marks THEN p + 2 ELSE 0

\* octal_number_prefix: "0"
octal_number_prefix(s, p) == IF char_at(s, p) = "0" THEN p + 1 ELSE 0

\* `digits:number() {? literals::parse_number(digits, radix) }`, the number being
\* of w limbs
number_of_radix(digits, radix, w) ==
    CHOOSE matched \in
        {IF of_rule.ok /\ parse_integer_number(of_rule.val, radix, w).ok
         THEN Matched(of_rule.pos, parse_integer_number(of_rule.val, radix, w).val)
         ELSE Failed : of_rule \in {digits}} : TRUE

\* the four alternatives of int_number and of long_number
integer_number(s, p, w) ==
    ordered_choice(
        <<number_of_radix(number(s, number_prefix(s, p, {"X", "x"}), digit_rule.hex), 16, w),
          number_of_radix(number(s, number_prefix(s, p, {"B", "b"}), digit_rule.binary), 2, w),
          number_of_radix(number(s, octal_number_prefix(s, p), digit_rule.octal), 8, w),
          number_of_radix(number(s, p, digit_rule.decimal), 10, w)>>)

\* int_number
int_number(s, p) == integer_number(s, p, 2)

\* a rule and a character of `chars` after it
then_one_of(s, matched, chars) ==
    CHOOSE with_it \in
        {IF before.ok /\ char_at(s, before.pos) \in chars
         THEN Matched(before.pos + 1, before.val)
         ELSE Failed : before \in {matched}} : TRUE

\* long_number
long_number(s, p) == then_one_of(s, integer_number(s, p, 4), {"L", "l"})

\* ast::Expression::Literal
Literal(kind, value) == [expr |-> "Literal", kind |-> kind, value |-> value]

\* a rule called on a text of which it may match the beginning only
start_of_input(s, matched, expression) ==
    CHOOSE result \in
        {IF of_rule.ok THEN Ok(expression) ELSE Err("ParseError") :
             of_rule \in {matched}} : TRUE

\* a `pub rule` called on a whole text: Ok where the rule matches all of it
whole_input(s, matched, expression) ==
    CHOOSE result \in
        {IF of_rule.ok /\ of_rule.pos = Len(s) + 1 THEN Ok(expression)
         ELSE Err("ParseError") : of_rule \in {matched}} : TRUE

-----------------------------------------------------------------------------
(* parser/literals.rs: how the digits of a floating point literal become   *)
(* a number.                                                               *)

\* the characters of the decimal digits, in their order
DecimalDigits == <<"0", "1", "2", "3", "4", "5", "6", "7", "8", "9">>

\* the limbs divided by ten: the quotient and the remainder
div_rem_10(limbs) ==
    LET rem[i \in 0..Len(limbs)] ==
            IF i = 0 THEN 0 ELSE (rem[i - 1] * 65536 + limbs[i]) % 10
    IN [quot |-> SubSeq([i \in 1..Len(limbs) |-> (rem[i - 1] * 65536 + limbs[i]) \div 10],
                     1, Len(limbs)),
        rem |-> rem[Len(limbs)]]

\* Display for i64, as format! writes an i64 for "{}": the sign of a negative
\* number and the decimal digits, none of them a leading zero
i64_fmt(self) ==
    LET step[k \in 0..20] ==
            IF k = 0 THEN [quot |-> self.abs, text |-> <<>>]
            ELSE CHOOSE next \in
                     {IF \A i \in 1..4 : before.quot[i] = 0 THEN before
                      ELSE [quot |-> div_rem_10(before.quot).quot,
                            text |-> <<DecimalDigits[div_rem_10(before.quot).rem + 1]>>
                                         \o before.text] :
                          before \in {step[k - 1]}} : TRUE
    IN (IF self.neg THEN <<"-">> ELSE <<>>)
           \o (IF step[20].text = <<>> THEN <<"0">> ELSE step[20].text)

\* a value of f32 or f64 is held as the decimal number that was parsed to it, in
\* one form: `sig` are its digits without the zeros before and after them, and
\* it is sig * 10^exp; zero has no digits. The rounding to the nearest f32 or f64
\* is left out: the texts that are parsed have at most six significant digits
\* and exponents of at most two digits, for which two decimal numbers are the
\* same f32 or f64 exactly if they are the same number.
Decimal(neg, digits, exp) ==
    LET lead == zero_or_more(digits, 1, {"0"}) - 1
        last == CHOOSE i \in 0..Len(digits) :
                    /\ i = 0 \/ digits[i] # "0"
                    /\ \A j \in i + 1..Len(digits) : digits[j] = "0"
    IN IF last = 0 THEN [neg |-> FALSE, sig |-> <<>>, exp |-> 0]
       ELSE [neg |-> neg, sig |-> SubSeq(digits, lead + 1, last),
             exp |-> exp + Len(digits) - last]

\* the number that decimal digits stand for
decimal_value(digits) ==
    LET value[i \in 0..Len(digits)] ==
            IF i = 0 THEN 0 ELSE value[i - 1] * 10 + to_digit(digits[i], 10).val
    IN value[Len(digits)]

\* <f32 as FromStr>::from_str and <f64 as FromStr>::from_str on a text of digits:
\* a sign, digits, a point and digits, `e` or `E` and a signed exponent, with a
\* digit before or after the point
float_from_str(src) ==
    LET start == IF char_at(src, 1) \in {"+", "-"} THEN 2 ELSE 1
        int_end == zero_or_more(src, start, digit_rule.decimal)
        frac_start == IF char_at(src, int_end) = "." THEN int_end + 1 ELSE int_end
        frac_end == zero_or_more(src, frac_start, digit_rule.decimal)
        has_exp == char_at(src, frac_end) \in {"e", "E"}
        exp_start == IF char_at(src, frac_end + 1) \in {"+", "-"}
                     THEN frac_end + 2 ELSE frac_end + 1
        exp_end == IF has_exp THEN zero_or_more(src, exp_start, digit_rule.decimal)
                   ELSE frac_end
        exponent == IF ~has_exp THEN 0
                    ELSE IF char_at(src, frac_end + 1) = "-"
                    THEN 0 - decimal_value(SubSeq(src, exp_start, exp_end - 1))
                    ELSE decimal_value(SubSeq(src, exp_start, exp_end - 1))
    IN IF /\ int_end > start \/ frac_end > frac_start
          /\ has_exp => exp_end > exp_start
          /\ exp_end = Len(src) + 1
       THEN Ok(Decimal(char_at(src, 1) = "-",
                       SubSeq(src, start, int_end - 1) \o SubSeq(src, frac_start, frac_end - 1),
                       exponent - (frac_end - frac_start)))
       ELSE Err("ParseFloatError")

\* `.parse::<T>().map_err(|error| error.into_static_str())`
parse_float(text) ==
    CHOOSE result \in
        {IF number_parsed.ok THEN number_parsed
         ELSE Err("floating point literal cannot be parsed") :
             number_parsed \in {float_from_str(text)}} : TRUE

\* parse_floating_point_number
parse_floating_point_number(digits) ==
    CHOOSE result \in
        {parse_float(text) : text \in {SelectSeq(digits, LAMBDA c : c # "_")}} : TRUE

\* `digits.map_or(Ok(0), |digits| i64::from_str_radix(digits, radix))`
i64_of_part(digits, radix) ==
    IF digits.some THEN from_str_radix(digits.val, radix, 4, TRUE)
    ELSE Ok([neg |-> FALSE, abs |-> <<0, 0, 0, 0>>])

\* parse_from_parts: the three parts as i64, written by
\* format!("{}.{}e{}", ..), and the text parsed
parse_from_parts(integer_digits, decimal_digits, exponent_digits, radix) ==
    CHOOSE result \in
        {IF ~integer.ok \/ ~decimal.ok \/ ~exponent.ok
         THEN Err("integer literal cannot be parsed")
         ELSE CHOOSE of_text \in
                  {parse_float(text) :
                       text \in {i64_fmt(integer.val) \o <<".">> \o i64_fmt(decimal.val)
                                     \o <<"e">> \o i64_fmt(exponent.val)}} : TRUE :
             integer \in {i64_of_part(integer_digits, radix)},
             decimal \in {i64_of_part(decimal_digits, radix)},
             exponent \in {i64_of_part(exponent_digits, radix)}} : TRUE

-----------------------------------------------------------------------------
(* parser/mod.rs: floating point numbers, characters, keywords and         *)
(* identifiers.                                                            *)

\* signed_number: `$(['+' | '-']? decimal_number())`, failed where p is 0
signed_number(s, p) ==
    CHOOSE matched \in
        {IF p > 0 /\ digits.ok THEN Matched(digits.pos, SubSeq(s, p, digits.pos - 1))
         ELSE Failed :
             digits \in {number(s, IF p = 0 THEN 0
                                   ELSE IF char_at(s, p) \in {"+", "-"} THEN p + 1 ELSE p,
                                digit_rule.decimal)}} : TRUE

\* `number()?`: the number, if there is one, and nothing otherwise
optional(matched, p) ==
    CHOOSE with_it \in
        {IF of_rule.ok THEN Matched(of_rule.pos, Some(of_rule.val)) ELSE Matched(p, None) :
             of_rule \in {matched}} : TRUE

\* float_number_significand(number), failed where p is 0: the integer digits and
\* the fractional digits around the decimal separator, one of them optional
float_number_significand(s, p, digits) ==
    CHOOSE matched \in
        {CHOOSE with_fraction \in
             {IF p = 0 THEN Failed
              ELSE IF fractional_digits.ok
              THEN Matched(fractional_digits.pos,
                           <<optional(integer_digits, p).val, Some(fractional_digits.val)>>)
              ELSE IF integer_digits.ok /\ char_at(s, integer_digits.pos) = "."
              THEN Matched(integer_digits.pos + 1, <<Some(integer_digits.val), None>>)
              ELSE Failed :
                  fractional_digits \in
                      {number(s, IF char_at(s, optional(integer_digits, p).pos) = "."
                                 THEN optional(integer_digits, p).pos + 1 ELSE 0,
                              digits)}} : TRUE :
             integer_digits \in {number(s, p, digits)}} : TRUE

\* the exponent after a significand: the indicator, one of `marks`, and a signed
\* number
exponent_after(s, significand, marks) ==
    signed_number(s, IF significand.ok /\ char_at(s, significand.pos) \in marks
                     THEN significand.pos + 1 ELSE 0)

\* the first alternative of float_number and of double_number: a hex number
hex_float_number(s, p) ==
    CHOOSE matched \in
        {CHOOSE with_exponent \in
             {IF exponent.ok
                 /\ parse_from_parts(significand.val[1], significand.val[2],
                                     Some(exponent.val), 16).ok
              THEN Matched(exponent.pos,
                           parse_from_parts(significand.val[1], significand.val[2],
                                            Some(exponent.val), 16).val)
              ELSE Failed :
                  exponent \in {exponent_after(s, significand, {"P", "p"})}} : TRUE :
             significand \in
                 {float_number_significand(s, number_prefix(s, p, {"X", "x"}),
                                           digit_rule.hex)}} : TRUE

\* the second alternative of float_number and of double_number: a decimal number
\* with a decimal separator and an optional exponent
decimal_float_number(s, p) ==
    CHOOSE matched \in
        {CHOOSE with_exponent \in
             {IF significand.ok
                 /\ parse_from_parts(significand.val[1], significand.val[2],
                                     exponent.val, 10).ok
              THEN Matched(exponent.pos,
                           parse_from_parts(significand.val[1], significand.val[2],
                                            exponent.val, 10).val)
              ELSE Failed :
                  exponent \in {optional(exponent_after(s, significand, {"E", "e"}),
                                         significand.pos)}} : TRUE :
             significand \in {float_number_significand(s, p, digit_rule.decimal)}} : TRUE

\* `digits:decimal_number() {? literals::parse_floating_point_number(digits) }`
whole_float_number(s, p) ==
    CHOOSE matched \in
        {IF digits.ok /\ parse_floating_point_number(digits.val).ok
         THEN Matched(digits.pos, parse_floating_point_number(digits.val).val)
         ELSE Failed : digits \in {number(s, p, digit_rule.decimal)}} : TRUE

\* float_number
float_number(s, p) ==
    then_one_of(s, ordered_choice(<<hex_float_number(s, p), decimal_float_number(s, p),
                                    whole_float_number(s, p)>>),
                {"F", "f"})

\* double_number: the suffix is optional on a number with a decimal separator
double_number(s, p) ==
    ordered_choice(
        <<CHOOSE with_suffix \in
              {IF then_one_of(s, parts, {"D", "d"}).ok
               THEN then_one_of(s, parts, {"D", "d"})
               ELSE parts :
                   parts \in {ordered_choice(<<hex_float_number(s, p),
                                               decimal_float_number(s, p)>>)}} : TRUE,
          then_one_of(s, whole_float_number(s, p), {"D", "d"})>>)

\* the characters of ASCII from the space, of the code 32, to the underscore, of
\* the code 95
AsciiFromSpace ==
    <<" ", "!", "\"", "#", "$", "%", "&", "'", "(", ")", "*", "+",
      ",", "-", ".", "/", "0", "1", "2", "3", "4", "5", "6", "7",
      "8", "9", ":", ";", "<", "=", ">", "?", "@", "A", "B", "C",
      "D", "E", "F", "G", "H", "I", "J", "K", "L", "M", "N", "O",
      "P", "Q", "R", "S", "T", "U", "V", "W", "X", "Y", "Z", "[",
      "\\", "]", "^", "_">>

\* the characters of ASCII from the small a, of the code 97, to the tilde
AsciiFromSmallA ==
    <<"a", "b", "c", "d", "e", "f", "g", "h", "i", "j", "k", "l", "m", "n", "o",
      "p", "q", "r", "s", "t", "u", "v", "w", "x", "y", "z", "{", "|", "}", "~">>

\* `value as ast::Char` for a character, here one of these
char_as_u16(c) ==
    IF \E i \in DOMAIN AsciiFromSpace : AsciiFromSpace[i] = c
    THEN 31 + CHOOSE i \in DOMAIN AsciiFromSpace : AsciiFromSpace[i] = c
    ELSE 96 + CHOOSE i \in DOMAIN AsciiFromSmallA : AsciiFromSmallA[i] = c

\* a literal of the grammar: the position after it, or 0 where it is not at p
literal_at(s, p, text) ==
    IF p > 0 /\ p + Len(text) - 1 <= Len(s) /\ SubSeq(s, p, p + Len(text) - 1) = text
    THEN p + Len(text)
    ELSE 0

\* escape_sequence: the characters after the backslash and their values
escape_sequence ==
    [c \in {"b", "t", "n", "f", "r", "\"", "'", "\\"} |->
        CASE c = "b" -> 8 [] c = "t" -> 9 [] c = "n" -> 10 [] c = "f" -> 12
          [] c = "r" -> 13 [] c = "\"" -> 34 [] c = "'" -> 39 [] c = "\\" -> 92]

\* the digits of a character, `len` of them at p, read in the radix
char_from_str_radix(s, p, len, radix) ==
    Matched(p + len, from_str_radix(SubSeq(s, p, p + len - 1), radix, 1, FALSE).val.abs[1])

\* what follows the backslash of character_value: `u` and four hex digits, or
\* three octal digits from 0 to 377 or else one or two of them, or the
\* character of an escape sequence
escaped_char(s, p) ==
    LET octal == zero_or_more(s, p, digit_rule.octal) - p
    IN ordered_choice(
           <<IF char_at(s, p) = "u" /\ zero_or_more(s, p + 1, digit_rule.hex) >= p + 5
             THEN char_from_str_radix(s, p + 1, 4, 16)
             ELSE Failed,
             IF octal >= 3 /\ char_at(s, p) \in {"0", "1", "2", "3"}
             THEN char_from_str_radix(s, p, 3, 8)
             ELSE IF octal >= 1
             THEN char_from_str_radix(s, p, IF octal >= 2 THEN 2 ELSE 1, 8)
             ELSE Failed,
             IF char_at(s, p) \in DOMAIN escape_sequence
             THEN Matched(p + 1, escape_sequence[char_at(s, p)])
             ELSE Failed>>)

\* character_value: between two apostrophes, a backslash and what it escapes or
\* a character that is neither of the two
character_value(s, p) ==
    LET value == IF char_at(s, p + 1) = "\\" THEN escaped_char(s, p + 2)
                 ELSE IF char_at(s, p + 1) \notin {"", "'"}
                 THEN Matched(p + 2, char_as_u16(char_at(s, p + 1)))
                 ELSE Failed
    IN IF char_at(s, p) = "'" /\ value.ok /\ char_at(s, value.pos) = "'"
       THEN Matched(value.pos + 1, value.val)
       ELSE Failed

\* boolean_value
boolean_value(s, p) ==
    ordered_choice(
        <<IF literal_at(s, p, <<"t", "r", "u", "e">>) > 0
          THEN Matched(literal_at(s, p, <<"t", "r", "u", "e">>), TRUE) ELSE Failed,
          IF literal_at(s, p, <<"f", "a", "l", "s", "e">>) > 0
          THEN Matched(literal_at(s, p, <<"f", "a", "l", "s", "e">>), FALSE) ELSE Failed>>)

\* null
null(s, p) ==
    IF literal_at(s, p, <<"n", "u", "l", "l">>) > 0
    THEN Matched(literal_at(s, p, <<"n", "u", "l", "l">>), <<>>)
    ELSE Failed

\* first_identifier_symbol: the characters it matches
first_identifier_symbol ==
    {"A", "B", "C", "D", "E", "F", "G", "H", "I", "J", "K", "L", "M",
     "N", "O", "P", "Q", "R", "S", "T", "U", "V", "W", "X", "Y", "Z",
     "a", "b", "c", "d", "e", "f", "g", "h", "i", "j", "k", "l", "m",
     "n", "o", "p", "q", "r", "s", "t", "u", "v", "w", "x", "y", "z",
     "_", "$"}

\* identifier_symbol: the characters it matches
identifier_symbol == digit_rule.decimal \cup first_identifier_symbol

\* the alternatives of keyword, in their order
Keywords ==
    <<[text |-> <<"a", "b", "s", "t", "r", "a", "c", "t">>, keyword |-> "Abstract"],
      [text |-> <<"a", "s", "s", "e", "r", "t">>, keyword |-> "Assert"],
      [text |-> <<"b", "o", "o", "l", "e", "a", "n">>, keyword |-> "Boolean"],
      [text |-> <<"b", "r", "e", "a", "k">>, keyword |-> "Break"],
      [text |-> <<"b", "y", "t", "e">>, keyword |-> "Byte"],
      [text |-> <<"c", "a", "s", "e">>, keyword |-> "Case"],
      [text |-> <<"c", "a", "t", "c", "h">>, keyword |-> "Catch"],
      [text |-> <<"c", "h", "a", "r">>, keyword |-> "Char"],
      [text |-> <<"c", "l", "a", "s", "s">>, keyword |-> "Class"],
      [text |-> <<"c", "o", "n", "s", "t">>, keyword |-> "Const"],
      [text |-> <<"c", "o", "n", "t", "i", "n", "u", "e">>, keyword |-> "Continue"],
      [text |-> <<"d", "e", "f", "a", "u", "l", "t">>, keyword |-> "Default"],
      [text |-> <<"d", "o", "u", "b", "l", "e">>, keyword |-> "Double"],
      [text |-> <<"d", "o">>, keyword |-> "Do"],
      [text |-> <<"e", "l", "s", "e">>, keyword |-> "Else"],
      [text |-> <<"e", "n", "u", "m">>, keyword |-> "Enum"],
      [text |-> <<"e", "x", "t", "e", "n", "d", "s">>, keyword |-> "Extends"],
      [text |-> <<"f", "i", "n", "a", "l", "l", "y">>, keyword |-> "Finally"],
      [text |-> <<"f", "i", "n", "a", "l">>, keyword |-> "Final"],
      [text |-> <<"f", "l", "o", "a", "t">>, keyword |-> "Float"],
      [text |-> <<"f", "o", "r">>, keyword |-> "For"],
      [text |-> <<"g", "o", "t", "o">>, keyword |-> "Goto"],
      [text |-> <<"i", "f">>, keyword |-> "If"],
      [text |-> <<"i", "m", "p", "l", "e", "m", "e", "n", "t", "s">>, keyword |-> "Implements"],
      [text |-> <<"i", "m", "p", "o", "r", "t">>, keyword |-> "Import"],
      [text |-> <<"i", "n", "s", "t", "a", "n", "c", "e", "o", "f">>, keyword |-> "Instanceof"],
      [text |-> <<"i", "n", "t", "e", "r", "f", "a", "c", "e">>, keyword |-> "Interface"],
      [text |-> <<"i", "n", "t">>, keyword |-> "Int"],
      [text |-> <<"l", "o", "n", "g">>, keyword |-> "Long"],
      [text |-> <<"n", "a", "t", "i", "v", "e">>, keyword |-> "Native"],
      [text |-> <<"n", "e", "w">>, keyword |-> "New"],
      [text |-> <<"p", "a", "c", "k", "a", "g", "e">>, keyword |-> "Package"],
      [text |-> <<"p", "r", "i", "v", "a", "t", "e">>, keyword |-> "Private"],
      [text |-> <<"p", "r", "o", "t", "e", "c", "t", "e", "d">>, keyword |-> "Protected"],
      [text |-> <<"p", "u", "b", "l", "i", "c">>, keyword |-> "Public"],
      [text |-> <<"r", "e", "t", "u", "r", "n">>, keyword |-> "Return"],
      [text |-> <<"s", "h", "o", "r", "t">>, keyword |-> "Short"],
      [text |-> <<"s", "t", "a", "t", "i", "c">>, keyword |-> "Static"],
      [text |-> <<"s", "t", "r", "i", "c", "t", "f", "p">>, keyword |-> "Strictfp"],
      [text |-> <<"s", "u", "p", "e", "r">>, keyword |-> "Super"],
      [text |-> <<"s", "w", "i", "t", "c", "h">>, keyword |-> "Switch"],
      [text |-> <<"s", "y", "n", "c", "h", "r", "o", "n", "i", "z", "e", "d">>, keyword |-> "Synchronized"],
      [text |-> <<"t", "h", "i", "s">>, keyword |-> "This"],
      [text |-> <<"t", "h", "r", "o", "w", "s">>, keyword |-> "Throws"],
      [text |-> <<"t", "h", "r", "o", "w">>, keyword |-> "Throw"],
      [text |-> <<"t", "r", "a", "n", "s", "i", "e", "n", "t">>, keyword |-> "Transient"],
      [text |-> <<"t", "r", "y">>, keyword |-> "Try"],
      [text |-> <<"v", "o", "i", "d">>, keyword |-> "Void"],
      [text |-> <<"v", "o", "l", "a", "t", "i", "l", "e">>, keyword |-> "Volatile"],
      [text |-> <<"w", "h", "i", "l", "e">>, keyword |-> "While"]>>

\* a keyword that does not look at what is after it
keyword_of_any_start(s, p) ==
    LET at == {i \in DOMAIN Keywords : literal_at(s, p, Keywords[i].text) > 0}
    IN IF at # {}
       THEN Matched(p + Len(Keywords[Least(at)].text), Keywords[Least(at)].keyword)
       ELSE Failed

\* keyword: the first alternative that is at p, and no identifier_symbol after it
keyword(s, p) ==
    LET at == {i \in DOMAIN Keywords : literal_at(s, p, Keywords[i].text) > 0}
    IN IF at # {} /\ char_at(s, p + Len(Keywords[Least(at)].text)) \notin identifier_symbol
       THEN Matched(p + Len(Keywords[Least(at)].text), Keywords[Least(at)].keyword)
       ELSE Failed

\* identifier_raw: not a keyword, a first_identifier_symbol and identifier_symbols
identifier_raw(s, p) ==
    IF ~keyword(s, p).ok /\ char_at(s, p) \in first_identifier_symbol
    THEN Matched(zero_or_more(s, p + 1, identifier_symbol), <<>>)
    ELSE Failed

\* identifier_name: the text that identifier_raw matched
identifier_name(s, p) ==
    IF identifier_raw(s, p).ok
    THEN Matched(identifier_raw(s, p).pos, SubSeq(s, p, identifier_raw(s, p).pos - 1))
    ELSE Failed

\* ast::Expression::Keyword
Keyword(value) == [expr |-> "Keyword", value |-> value]

\* ast::Expression::Identifier
Identifier(value) == [expr |-> "Identifier", value |-> value]

\* the alternatives of literal_expression, in their order, each with the literal
\* it yields
literal_alternatives(s, p) ==
    LET yields(kind, matched) ==
            IF matched.ok THEN Matched(matched.pos, Literal(kind, matched.val)) ELSE Failed
    IN ordered_choice(
           <<yields("Null", null(s, p)), yields("Char", character_value(s, p)),
             yields("Boolean", boolean_value(s, p)), yields("Float", float_number(s, p)),
             yields("Double", double_number(s, p)), yields("Long", long_number(s, p)),
             yields("Int", int_number(s, p))>>)

-----------------------------------------------------------------------------
(* The texts that are parsed. An integer literal is written from a number  *)
(* in one of the four radixes.                                             *)

\* the numbers that integer literals are written from, in their order, each with
\* its digits in the four radixes and with the int and the long of the same bits,
\* if it has no more than 32 and 64 bits
Numbers ==
    {
     [number |-> "0", order |-> 1,
      digits |-> [r16 |-> <<"0">>,
                  r2 |-> <<"0">>,
                  r8 |-> <<"0">>,
                  r10 |-> <<"0">>],
      int |-> Some(0),
      long |-> Some([neg |-> FALSE, abs |-> <<0, 0, 0, 0>>])],
     [number |-> "1", order |-> 2,
      digits |-> [r16 |-> <<"1">>,
                  r2 |-> <<"1">>,
                  r8 |-> <<"1">>,
                  r10 |-> <<"1">>],
      int |-> Some(1),
      long |-> Some([neg |-> FALSE, abs |-> <<0, 0, 0, 1>>])],
     [number |-> "9752", order |-> 3,
      digits |-> [r16 |-> <<"2", "6", "1", "8">>,
                  r2 |-> <<"1", "0", "0", "1", "1", "0", "0", "0", "0", "1", "1", "0", "0", "0">>,
                  r8 |-> <<"2", "3", "0", "3", "0">>,
                  r10 |-> <<"9", "7", "5", "2">>],
      int |-> Some(9752),
      long |-> Some([neg |-> FALSE, abs |-> <<0, 0, 0, 9752>>])],
     [number |-> "2^31 - 1", order |-> 4,
      digits |-> [r16 |-> <<"7", "F", "F", "F", "F", "F", "F", "F">>,
                  r2 |-> <<"1", "1", "1", "1", "1", "1", "1", "1", "1", "1", "1", "1", "1", "1", "1", "1", "1", "1", "1", "1", "1", "1", "1", "1", "1", "1", "1", "1", "1", "1", "1">>,
                  r8 |-> <<"1", "7", "7", "7", "7", "7", "7", "7", "7", "7", "7">>,
                  r10 |-> <<"2", "1", "4", "7", "4", "8", "3", "6", "4", "7">>],
      int |-> Some(2147483647),
      long |-> Some([neg |-> FALSE, abs |-> <<0, 0, 32767, 65535>>])],
     [number |-> "2^31", order |-> 5,
      digits |-> [r16 |-> <<"8", "0", "0", "0", "0", "0", "0", "0">>,
                  r2 |-> <<"1", "0", "0", "0", "0", "0", "0", "0", "0", "0", "0", "0", "0", "0", "0", "0", "0", "0", "0", "0", "0", "0", "0", "0", "0", "0", "0", "0", "0", "0", "0", "0">>,
                  r8 |-> <<"2", "0", "0", "0", "0", "0", "0", "0", "0", "0", "0">>,
                  r10 |-> <<"2", "1", "4", "7", "4", "8", "3", "6", "4", "8">>],
      int |-> Some(-2147483647 - 1),
      long |-> Some([neg |-> FALSE, abs |-> <<0, 0, 32768, 0>>])],
     [number |-> "2^31 + 1", order |-> 6,
      digits |-> [r16 |-> <<"8", "0", "0", "0", "0", "0", "0", "1">>,
                  r2 |-> <<"1", "0", "0", "0", "0", "0", "0", "0", "0", "0", "0", "0", "0", "0", "0", "0", "0", "0", "0", "0", "0", "0", "0", "0", "0", "0", "0", "0", "0", "0", "0", "1">>,
                  r8 |-> <<"2", "0", "0", "0", "0", "0", "0", "0", "0", "0", "1">>,
                  r10 |-> <<"2", "1", "4", "7", "4", "8", "3", "6", "4", "9">>],
      int |-> Some(-2147483647),
      long |-> Some([neg |-> FALSE, abs |-> <<0, 0, 32768, 1>>])],
     [number |-> "0xCAFEBABE", order |-> 7,
      digits |-> [r16 |-> <<"C", "A", "F", "E", "B", "A", "B", "E">>,
                  r2 |-> <<"1", "1", "0", "0", "1", "0", "1", "0", "1", "1", "1", "1", "1", "1", "1", "0", "1", "0", "1", "1", "1", "0", "1", "0", "1", "0", "1", "1", "1", "1", "1", "0">>,
                  r8 |-> <<"3", "1", "2", "7", "7", "5", "3", "5", "2", "7", "6">>,
                  r10 |-> <<"3", "4", "0", "5", "6", "9", "1", "5", "8", "2">>],
      int |-> Some(-889275714),
      long |-> Some([neg |-> FALSE, abs |-> <<0, 0, 51966, 47806>>])],
     [number |-> "2^32 - 1", order |-> 8,
      digits |-> [r16 |-> <<"F", "F", "F", "F", "F", "F", "F", "F">>,
                  r2 |-> <<"1", "1", "1", "1", "1", "1", "1", "1", "1", "1", "1", "1", "1", "1", "1", "1", "1", "1", "1", "1", "1", "1", "1", "1", "1", "1", "1", "1", "1", "1", "1", "1">>,
                  r8 |-> <<"3", "7", "7", "7", "7", "7", "7", "7", "7", "7", "7">>,
                  r10 |-> <<"4", "2", "9", "4", "9", "6", "7", "2", "9", "5">>],
      int |-> Some(-1),
      long |-> Some([neg |-> FALSE, abs |-> <<0, 0, 65535, 65535>>])],
     [number |-> "2^32", order |-> 9,
      digits |-> [r16 |-> <<"1", "0", "0", "0", "0", "0", "0", "0", "0">>,
                  r2 |-> <<"1", "0", "0", "0", "0", "0", "0", "0", "0", "0", "0", "0", "0", "0", "0", "0", "0", "0", "0", "0", "0", "0", "0", "0", "0", "0", "0", "0", "0", "0", "0", "0", "0">>,
                  r8 |-> <<"4", "0", "0", "0", "0", "0", "0", "0", "0", "0", "0">>,
                  r10 |-> <<"4", "2", "9", "4", "9", "6", "7", "2", "9", "6">>],
      int |-> None,
      long |-> Some([neg |-> FALSE, abs |-> <<0, 1, 0, 0>>])],
     [number |-> "2^63 - 1", order |-> 10,
      digits |-> [r16 |-> <<"7", "F", "F", "F", "F", "F", "F", "F", "F", "F", "F", "F", "F", "F", "F", "F">>,
                  r2 |-> <<"1", "1", "1", "1", "1", "1", "1", "1", "1", "1", "1", "1", "1", "1", "1", "1", "1", "1", "1", "1", "1", "1", "1", "1", "1", "1", "1", "1", "1", "1", "1", "1", "1", "1", "1", "1", "1", "1", "1", "1", "1", "1", "1", "1", "1", "1", "1", "1", "1", "1", "1", "1", "1", "1", "1", "1", "1", "1", "1", "1", "1", "1", "1">>,
                  r8 |-> <<"7", "7", "7", "7", "7", "7", "7", "7", "7", "7", "7", "7", "7", "7", "7", "7", "7", "7", "7", "7", "7">>,
                  r10 |-> <<"9", "2", "2", "3", "3", "7", "2", "0", "3", "6", "8", "5", "4", "7", "7", "5", "8", "0", "7">>],
      int |-> None,
      long |-> Some([neg |-> FALSE, abs |-> <<32767, 65535, 65535, 65535>>])],
     [number |-> "2^63", order |-> 11,
      digits |-> [r16 |-> <<"8", "0", "0", "0", "0", "0", "0", "0", "0", "0", "0", "0", "0", "0", "0", "0">>,
                  r2 |-> <<"1", "0", "0", "0", "0", "0", "0", "0", "0", "0", "0", "0", "0", "0", "0", "0", "0", "0", "0", "0", "0", "0", "0", "0", "0", "0", "0", "0", "0", "0", "0", "0", "0", "0", "0", "0", "0", "0", "0", "0", "0", "0", "0", "0", "0", "0", "0", "0", "0", "0", "0", "0", "0", "0", "0", "0", "0", "0", "0", "0", "0", "0", "0", "0">>,
                  r8 |-> <<"1", "0", "0", "0", "0", "0", "0", "0", "0", "0", "0", "0", "0", "0", "0", "0", "0", "0", "0", "0", "0", "0">>,
                  r10 |-> <<"9", "2", "2", "3", "3", "7", "2", "0", "3", "6", "8", "5", "4", "7", "7", "5", "8", "0", "8">>],
      int |-> None,
      long |-> Some([neg |-> TRUE, abs |-> <<32768, 0, 0, 0>>])],
     [number |-> "2^63 + 1", order |-> 12,
      digits |-> [r16 |-> <<"8", "0", "0", "0", "0", "0", "0", "0", "0", "0", "0", "0", "0", "0", "0", "1">>,
                  r2 |-> <<"1", "0", "0", "0", "0", "0", "0", "0", "0", "0", "0", "0", "0", "0", "0", "0", "0", "0", "0", "0", "0", "0", "0", "0", "0", "0", "0", "0", "0", "0", "0", "0", "0", "0", "0", "0", "0", "0", "0", "0", "0", "0", "0", "0", "0", "0", "0", "0", "0", "0", "0", "0", "0", "0", "0", "0", "0", "0", "0", "0", "0", "0", "0", "1">>,
                  r8 |-> <<"1", "0", "0", "0", "0", "0", "0", "0", "0", "0", "0", "0", "0", "0", "0", "0", "0", "0", "0", "0", "0", "1">>,
                  r10 |-> <<"9", "2", "2", "3", "3", "7", "2", "0", "3", "6", "8", "5", "4", "7", "7", "5", "8", "0", "9">>],
      int |-> None,
      long |-> Some([neg |-> TRUE, abs |-> <<32767, 65535, 65535, 65535>>])],
     [number |-> "2^64 - 1", order |-> 13,
      digits |-> [r16 |-> <<"F", "F", "F", "F", "F", "F", "F", "F", "F", "F", "F", "F", "F", "F", "F", "F">>,
                  r2 |-> <<"1", "1", "1", "1", "1", "1", "1", "1", "1", "1", "1", "1", "1", "1", "1", "1", "1", "1", "1", "1", "1", "1", "1", "1", "1", "1", "1", "1", "1", "1", "1", "1", "1", "1", "1", "1", "1", "1", "1", "1", "1", "1", "1", "1", "1", "1", "1", "1", "1", "1", "1", "1", "1", "1", "1", "1", "1", "1", "1", "1", "1", "1", "1", "1">>,
                  r8 |-> <<"1", "7", "7", "7", "7", "7", "7", "7", "7", "7", "7", "7", "7", "7", "7", "7", "7", "7", "7", "7", "7", "7">>,
                  r10 |-> <<"1", "8", "4", "4", "6", "7", "4", "4", "0", "7", "3", "7", "0", "9", "5", "5", "1", "6", "1", "5">>],
      int |-> None,
      long |-> Some([neg |-> TRUE, abs |-> <<0, 0, 0, 1>>])],
     [number |-> "2^64", order |-> 14,
      digits |-> [r16 |-> <<"1", "0", "0", "0", "0", "0", "0", "0", "0", "0", "0", "0", "0", "0", "0", "0", "0">>,
                  r2 |-> <<"1", "0", "0", "0", "0", "0", "0", "0", "0", "0", "0", "0", "0", "0", "0", "0", "0", "0", "0", "0", "0", "0", "0", "0", "0", "0", "0", "0", "0", "0", "0", "0", "0", "0", "0", "0", "0", "0", "0", "0", "0", "0", "0", "0", "0", "0", "0", "0", "0", "0", "0", "0", "0", "0", "0", "0", "0", "0", "0", "0", "0", "0", "0", "0", "0">>,
                  r8 |-> <<"2", "0", "0", "0", "0", "0", "0", "0", "0", "0", "0", "0", "0", "0", "0", "0", "0", "0", "0", "0", "0", "0">>,
                  r10 |-> <<"1", "8", "4", "4", "6", "7", "4", "4", "0", "7", "3", "7", "0", "9", "5", "5", "1", "6", "1", "6">>],
      int |-> None,
      long |-> None]
    }

\* `n` times the character c
Repeated(c, n) == [i \in 1..n |-> c]

\* the text of a number: the prefix, `zeros` leading zeros, the digits with
\* `separators` underscores after the first of them, and the suffix
IntegerText(prefix, zeros, digits, separators, suffix) ==
    prefix \o (IF zeros + Len(digits) > 1
               THEN <<Head(Repeated("0", zeros) \o digits)>> \o Repeated("_", separators)
                        \o Tail(Repeated("0", zeros) \o digits)
               ELSE digits) \o suffix

\* the prefixes of the radixes
RadixPrefixes ==
    {[radix |-> 16, digits |-> "r16", prefix |-> <<"0", "x">>],
     [radix |-> 16, digits |-> "r16", prefix |-> <<"0", "X">>],
     [radix |-> 2, digits |-> "r2", prefix |-> <<"0", "b">>],
     [radix |-> 8, digits |-> "r8", prefix |-> <<"0">>],
     [radix |-> 10, digits |-> "r10", prefix |-> <<>>]}

\* the integer literals: every number in every radix, a decimal literal without
\* leading zeros, with and without separators and the suffix of a long
IntegerLiterals ==
    {literal \in
         {[text |-> IntegerText(form.prefix, zeros, n.digits[form.digits],
                                separators, suffix),
           number |-> n, radix |-> form.radix, zeros |-> zeros,
           separators |-> separators, suffix |-> suffix] :
              n \in Numbers, form \in RadixPrefixes, zeros \in 0..MaxLeadingZeros,
              separators \in 0..MaxSeparators, suffix \in {<<>>, <<"L">>}} :
         literal.zeros = 0 \/ literal.radix # 10}

\* the hex floating point literals, each with the kind of its suffix and with the
\* number that its significand times two to the power of its exponent is
HexFloatLiterals ==
    {[text |-> <<"0", "x", "A", ".", "B", "p", "1", "f">>,
      kind |-> "Float", value |-> Decimal(FALSE, <<"2", "1", "3", "7", "5">>, -3)],
     [text |-> <<"0", "x", "A", ".", "B", "p", "1">>,
      kind |-> "Double", value |-> Decimal(FALSE, <<"2", "1", "3", "7", "5">>, -3)],
     [text |-> <<"0", "x", "1", ".", "8", "p", "1", "f">>,
      kind |-> "Float", value |-> Decimal(FALSE, <<"3">>, 0)],
     [text |-> <<"0", "x", "1", ".", "0", "p", "0", "f">>,
      kind |-> "Float", value |-> Decimal(FALSE, <<"1">>, 0)],
     [text |-> <<"0", "x", ".", "8", "p", "0", "f">>,
      kind |-> "Float", value |-> Decimal(FALSE, <<"5">>, -1)],
     [text |-> <<"0", "x", "1", ".", "p", "1", "d">>,
      kind |-> "Double", value |-> Decimal(FALSE, <<"2">>, 0)],
     [text |-> <<"0", "x", "1", ".", "8", "p", "-", "1", "F">>,
      kind |-> "Float", value |-> Decimal(FALSE, <<"7", "5">>, -2)],
     [text |-> <<"0", "x", "1", ".", "8", "p", "+", "1", "0">>,
      kind |-> "Double", value |-> Decimal(FALSE, <<"1", "5", "3", "6">>, 0)],
     [text |-> <<"0", "x", "F", ".", "F", "p", "2", "D">>,
      kind |-> "Double", value |-> Decimal(FALSE, <<"6", "3", "7", "5">>, -2)],
     [text |-> <<"0", "x", "0", ".", "4", "p", "0", "f">>,
      kind |-> "Float", value |-> Decimal(FALSE, <<"2", "5">>, -2)]}

\* the exponents of decimal floating point literals, written and as numbers
Exponents ==
    {[text |-> <<>>, exponent |-> 0],
     [text |-> <<"e", "1">>, exponent |-> 1],
     [text |-> <<"E", "-", "2">>, exponent |-> -2]}

\* the decimal floating point literals with integer digits and fractional digits,
\* some of the fractional digits with zeros before and after them
DecimalFloatLiterals ==
    {[text |-> parts[1] \o <<".">> \o parts[2] \o parts[3].text \o parts[4],
      integer |-> parts[1], fraction |-> parts[2], exponent |-> parts[3].exponent,
      kind |-> IF parts[4] \in {<<"f">>, <<"F">>} THEN "Float" ELSE "Double"] :
         parts \in {<<"0">>, <<"1">>, <<"1", "2">>}
                   \X {<<"5">>, <<"0", "5">>, <<"0", "0", "7">>, <<"2", "5">>, <<"5", "0">>}
                   \X Exponents
                   \X {<<>>, <<"f">>, <<"F">>, <<"d">>}}

\* floating point literals of other forms, and texts that are none
OtherFloatTexts ==
    {<<".", "5", "f">>, <<"1", ".", "f">>, <<"1", "f">>, <<"1", "d">>, <<"1", ".">>,
     <<".", "5">>, <<"1", "_", "2", "f">>, <<"1", "_", "2", ".", "5", "f">>,
     <<"1", "e", "1", "f">>, <<"1", ".", "5", "e", "f">>, <<".">>, <<"0", "x", "1", ".", "8", "f">>}

\* character literals, and texts that are none
CharTexts ==
    {<<"'", "a", "'">>, <<"'", "Z", "'">>, <<"'", " ", "'">>, <<"'", "\"", "'">>,
     <<"'", "\\", "n", "'">>, <<"'", "\\", "'", "'">>, <<"'", "\\", "\\", "'">>,
     <<"'", "\\", "u", "0", "0", "4", "1", "'">>, <<"'", "\\", "u", "F", "f", "F", "f", "'">>,
     <<"'", "\\", "u", "4", "1", "'">>, <<"'", "\\", "1", "0", "1", "'">>,
     <<"'", "\\", "7", "'">>, <<"'", "\\", "7", "7", "'">>, <<"'", "\\", "4", "7", "7", "'">>,
     <<"'", "\\", "3", "7", "7", "'">>, <<"'", "'">>, <<"'", "'", "'">>, <<"'", "a", "b", "'">>,
     <<"'", "a">>, <<"'", "\\", "q", "'">>}

\* the texts of the keywords
KeywordTexts == {Keywords[i].text : i \in DOMAIN Keywords}

\* identifier symbols that are written after a keyword
KeywordSuffixes ==
    {<<"x">>, <<"s">>, <<"1">>, <<"l", "y">>, <<"u", "b", "l", "e">>,
     <<"e", "r", "f", "a", "c", "e">>, <<"e", "g", "e", "r">>, <<"a", "b", "l", "e">>}

\* the keywords with identifier symbols after them
SuffixedKeywords ==
    {[keyword |-> i, text |-> Keywords[i].text \o suffix] :
         i \in DOMAIN Keywords, suffix \in KeywordSuffixes}

\* texts that are each the whole of a keyword, a literal or an identifier
Tokens ==
    KeywordTexts
        \cup {<<"t", "r", "u", "e">>, <<"f", "a", "l", "s", "e">>, <<"n", "u", "l", "l">>,
              <<"1">>, <<"1", "2", "3">>, <<"1", "L">>, <<"1", ".", "5", "f">>,
              <<"1", ".", "5">>, <<"'", "a", "'">>, <<"h", "i">>, <<"$", "t", "o", "n", "k", "s">>,
              <<"o", "m", "a", "1", "g", "a", "1">>, <<"n", "o", "n", "v", "o", "l", "a", "t", "i", "l", "e">>}

\* what is written after a token: white space, and more after it
Trailers ==
    {<<" ">>, <<" ", "a", "g", "o">>, <<" ", "b", "o", "y">>, <<" ", "b", "r", "o">>,
     <<" ", "+", " ", "1">>}

\* the tokens with more text after them
TrailedTokens ==
    {token \o trailer : token \in Tokens, trailer \in Trailers}
        \cup {<<"1", "2", "3", "m", "a", "n">>, <<"1", "m", "a", "n">>,
              <<"8", "8", "0", "0">> \o <<" ">>}

-----------------------------------------------------------------------------
(* The parser as a state machine: a text is given, and one of the public   *)
(* rules of the grammar is called on it. The grammar keeps nothing between *)
(* two calls.                                                              *)

\* the texts that are given to the parser
Texts ==
    {literal.text : literal \in IntegerLiterals \cup HexFloatLiterals \cup DecimalFloatLiterals}
        \cup OtherFloatTexts \cup CharTexts \cup Tokens
        \cup {suffixed.text : suffixed \in SuffixedKeywords} \cup TrailedTokens

\* no rule was called on the text yet
NotParsed == [rule |-> "", res |-> Ok(<<>>)]

InitParser ==
    /\ entries = ConstPool_new
    /\ pool_last = [op |-> NoPoolOp, pre |-> ConstPool_new, res |-> Ok(0)]
    /\ issued = {}
    /\ BytecodeInit(0)
    /\ NoClass
    /\ NoVec
    /\ NoFlags
    /\ input \in Texts
    /\ parsed = NotParsed

\* the Result that the call of `rule` on the text leaves
ParserReturn(rule, res) ==
    /\ parsed' = [rule |-> rule, res |-> res]
    /\ UNCHANGED <<pool_vars, bc_vars, class_vars, vec_vars, flag_vars, input>>

int_literal_expression ==
    /\ parsed = NotParsed
    /\ ParserReturn("int_literal_expression",
           whole_input(input, int_number(input, 1),
                       Literal("Int", int_number(input, 1).val)))

long_literal_expression ==
    /\ parsed = NotParsed
    /\ ParserReturn("long_literal_expression",
           whole_input(input, long_number(input, 1),
                       Literal("Long", long_number(input, 1).val)))

float_literal_expression ==
    /\ parsed = NotParsed
    /\ ParserReturn("float_literal_expression",
           whole_input(input, float_number(input, 1),
                       Literal("Float", float_number(input, 1).val)))

double_literal_expression ==
    /\ parsed = NotParsed
    /\ ParserReturn("double_literal_expression",
           whole_input(input, double_number(input, 1),
                       Literal("Double", double_number(input, 1).val)))

boolean_literal_expression ==
    /\ parsed = NotParsed
    /\ ParserReturn("boolean_literal_expression",
           whole_input(input, boolean_value(input, 1),
                       Literal("Boolean", boolean_value(input, 1).val)))

char_literal_expression ==
    /\ parsed = NotParsed
    /\ ParserReturn("char_literal_expression",
           whole_input(input, character_value(input, 1),
                       Literal("Char", character_value(input, 1).val)))

null_literal_expression ==
    /\ parsed = NotParsed
    /\ ParserReturn("null_literal_expression",
           whole_input(input, null(input, 1), Literal("Null", <<>>)))

literal_expression ==
    /\ parsed = NotParsed
    /\ ParserReturn("literal_expression",
           whole_input(input, literal_alternatives(input, 1),
                       literal_alternatives(input, 1).val))

keyword_expression ==
    /\ parsed = NotParsed
    /\ ParserReturn("keyword_expression",
           whole_input(input, keyword(input, 1), Keyword(keyword(input, 1).val)))

identifier_expression ==
    /\ parsed = NotParsed
    /\ ParserReturn("identifier_expression",
           whole_input(input, identifier_name(input, 1),
                       Identifier(identifier_name(input, 1).val)))

NextParser ==
    \/ int_literal_expression
    \/ long_literal_expression
    \/ float_literal_expression
    \/ double_literal_expression
    \/ boolean_literal_expression
    \/ char_literal_expression
    \/ null_literal_expression
    \/ literal_expression
    \/ keyword_expression
    \/ identifier_expression

SpecParser == InitParser /\ [][NextParser]_vars

-----------------------------------------------------------------------------
(* The constant pool: what is claimed of it.                               *)

\* a call has been made and returned Ok
PoolStored == pool_last.op # NoPoolOp /\ pool_last.res.ok

\* the last call appended to the pool
PoolGrew == Len(entries) > Len(pool_last.pre)

\* the call that was just made, made once more
StoredAgain == pool_call(entries, pool_last.op)

\* C1: storing a value again returns the index of its first store and leaves the
\* entries, and so the size, as they are; two different values never share an index.
C1_PoolDedup ==
    /\ PoolStored =>
           /\ StoredAgain.res = pool_last.res
           /\ StoredAgain.entries = entries
           /\ size(StoredAgain.entries) = size(entries)
    /\ \A p \in issued : \A q \in issued :
           (p.value = q.value) <=> (p.index = q.index)

\* C1's case: a class stored a second time, found at the index of the first store
C1_Witness ==
    /\ PoolStored
    /\ pool_last.op.fn = "store_const_class_info"
    /\ ~PoolGrew
    /\ Cardinality(issued) >= 2

\* the entry a store that takes one scalar or one string appends first
first_entry(op) ==
    CASE op.fn = "store_const_integer_info" -> ConstIntegerInfo(op.v)
      [] op.fn = "store_const_long_info" -> ConstLongInfo(op.v)
      [] op.fn = "store_const_float_info" -> ConstFloatInfo_from(op.f)
      [] op.fn = "store_const_double_info" -> ConstDoubleInfo_from(op.f)
      [] OTHER -> Utf8(into_bytes(op.s1))

WideStored ==
    /\ PoolStored
    /\ PoolGrew
    /\ ValueOf(pool_last.op).fn \in {"store_const_long_info", "store_const_double_info"}

\* C3: a new Long or Double at index n also takes slot n + 1, an Empty filler, so
\* that the next new entry is at index n + 2.
C3_WideTakesTwoSlots ==
    WideStored =>
        /\ Len(entries) = Len(pool_last.pre) + 2
        /\ entries[Len(entries)] = Empty
        /\ \A op \in IntOps("store_const_integer_info", U32Values) :
               pool_call(entries, op).res.val = pool_last.res.val + 2

\* slot j is an earlier slot than position i and holds an entry of kind `tag`
RefersTo(i, j, tag) == 1 <= j /\ j < i - 1 /\ entries[j + 1].tag = tag

\* C4: a composite entry refers only to earlier slots, other than slot 0, that hold
\* the kind of entry the reference is for.
C4_NoDanglingIndex ==
    \A i \in 1..Len(entries) :
        /\ entries[i].tag \in {"Class", "String", "MethodType"} =>
               RefersTo(i, entries[i].i1, "Utf8")
        /\ entries[i].tag = "NameAndType" =>
               RefersTo(i, entries[i].i1, "Utf8") /\ RefersTo(i, entries[i].i2, "Utf8")
        /\ entries[i].tag \in {"FieldRef", "MethodRef", "InterfaceMethodRef"} =>
               RefersTo(i, entries[i].i1, "Class")
               /\ RefersTo(i, entries[i].i2, "NameAndType")

\* C4's case: a field ref stored into a pool that held its class name already
C4_Witness ==
    /\ PoolStored
    /\ pool_last.op.fn = "store_const_field_ref_info"
    /\ Len(pool_last.pre) > 1
    /\ \E i \in 1..Len(entries) : entries[i].tag = "FieldRef" /\ entries[i].i1 < i - 2

-----------------------------------------------------------------------------
(* The assembler: what is claimed of it.                                   *)

\* an instruction was called on the Bytecode
Called == bc_hist.calls > 0

Loads == {"aload", "dload", "fload", "iload", "lload"}

Stores == {"astore", "dstore", "fstore", "istore", "lstore"}

\* the loads and stores of the two-slot types
Fat == {"dload", "lload", "dstore", "lstore"}

\* JVMS 6.5: the slots an instruction takes off the operand stack and the slots
\* it puts on it
JvmsStackEffect(instr) ==
    CASE instr \in {"aaload", "iadd", "iand", "idiv"} -> [pop |-> 2, push |-> 1]
      [] instr \in {"aconst_null", "bipush", "iconst_0", "sipush", "ldc"} -> [pop |-> 0, push |-> 1]
      [] instr \in {"lconst_0", "ldc2_w"} -> [pop |-> 0, push |-> 2]
      [] instr = "dup" -> [pop |-> 1, push |-> 2]
      [] instr = "dup2_x1" -> [pop |-> 3, push |-> 5]
      [] instr = "dup2_x2" -> [pop |-> 4, push |-> 6]
      [] instr \in {"monitorenter", "monitorexit", "pop"} -> [pop |-> 1, push |-> 0]
      [] instr = "pop2" -> [pop |-> 2, push |-> 0]
      [] instr = "return" -> [pop |-> 0, push |-> 0]
      [] instr = "anewarray" -> [pop |-> 1, push |-> 1]
      [] instr \in Loads -> [pop |-> 0, push |-> IF instr \in Fat THEN 2 ELSE 1]
      [] instr \in Stores -> [pop |-> IF instr \in Fat THEN 2 ELSE 1, push |-> 0]

\* C5: while every call on a fresh Bytecode has succeeded, each call moved the
\* stack counter by push - pop of its instruction, so that the counter is the sum
\* of push - pop over the calls
C5_BytecodeBalance ==
    (Called /\ bc_hist.all_ok) =>
        stack = bc_last.pre.stack + JvmsStackEffect(bc_last.instr).push
                                  - JvmsStackEffect(bc_last.instr).pop

\* C6: a call of an instruction that pops more slots than the stack counter
\* holds returns CorruptedStack, and the counter is never below zero
C6_UnderflowRejected ==
    /\ stack >= 0
    /\ (Called /\ JvmsStackEffect(bc_last.instr).pop > bc_last.pre.stack) =>
           bc_last.res = Err("CorruptedStack")

\* C7: after any calls, failed ones among them, stack <= max_stack, max_stack is
\* not below what it was before the last call, and max_stack is the largest value
\* that the stack counter has held after a call (0 on a fresh Bytecode)
C7_MaxStackIsPeak ==
    /\ stack <= max_stack
    /\ max_stack >= bc_last.pre.max_stack
    /\ max_stack = bc_hist.peak

\* C7: the counter went up to its peak, and the last call, a pop that succeeded,
\* took it below the peak, which max_stack still holds
C7_Witness ==
    /\ bc_last.instr = "pop"
    /\ bc_last.res.ok
    /\ bc_last.pre.stack = max_stack
    /\ stack < max_stack

\* JVMS 6.5: the opcode of a load or store with an index byte, and the opcode of
\* its form for local 0
LocalOpcodes(instr) ==
    CASE instr = "iload" -> [generic |-> 21, specific_0 |-> 26]
      [] instr = "lload" -> [generic |-> 22, specific_0 |-> 30]
      [] instr = "fload" -> [generic |-> 23, specific_0 |-> 34]
      [] instr = "dload" -> [generic |-> 24, specific_0 |-> 38]
      [] instr = "aload" -> [generic |-> 25, specific_0 |-> 42]
      [] instr = "istore" -> [generic |-> 54, specific_0 |-> 59]
      [] instr = "lstore" -> [generic |-> 55, specific_0 |-> 63]
      [] instr = "fstore" -> [generic |-> 56, specific_0 |-> 67]
      [] instr = "dstore" -> [generic |-> 57, specific_0 |-> 71]
      [] instr = "astore" -> [generic |-> 58, specific_0 |-> 75]

\* the three forms of a load or store of local n: the specific opcode, the generic
\* opcode and an index byte, the wide prefix and a two-byte index
LocalForm(instr, n) ==
    IF n <= 3 THEN <<LocalOpcodes(instr).specific_0 + n>>
    ELSE IF n <= 255 THEN <<LocalOpcodes(instr).generic, n>>
    ELSE <<196, LocalOpcodes(instr).generic, n \div 256, n % 256>>

\* JVMS 6.5: the encodings of an instruction, opcode first, operands big-endian
JvmsEncodings(instr, arg) ==
    CASE instr = "aaload" -> {<<50>>}
      [] instr = "aconst_null" -> {<<1>>}
      [] instr = "bipush" -> {<<16, byte>> : byte \in 0..255}
      [] instr = "dup" -> {<<89>>}
      [] instr = "dup2_x1" -> {<<93>>}
      [] instr = "dup2_x2" -> {<<94>>}
      [] instr = "iadd" -> {<<96>>}
      [] instr = "iand" -> {<<126>>}
      [] instr = "iconst_0" -> {<<3>>}
      [] instr = "idiv" -> {<<108>>}
      [] instr = "lconst_0" -> {<<9>>}
      [] instr = "monitorenter" -> {<<194>>}
      [] instr = "monitorexit" -> {<<195>>}
      [] instr = "pop" -> {<<87>>}
      [] instr = "pop2" -> {<<88>>}
      [] instr = "return" -> {<<177>>}
      [] instr = "anewarray" -> {<<189, arg \div 256, arg % 256>>}
      [] instr = "ldc" -> {IF arg <= 255 THEN <<18, arg>>
                           ELSE <<19, arg \div 256, arg % 256>>}
      [] instr = "ldc2_w" -> {<<20, arg \div 256, arg % 256>>}
      [] instr = "sipush" -> {<<17, arg \div 256, arg % 256>>}
      [] instr \in Loads \cup Stores -> {LocalForm(instr, arg)}

\* the bytes that the last call put at the end of the code
Appended == SubSeq(code, Len(bc_last.pre.code) + 1, Len(code))

\* C8: a call that succeeds leaves the code as it was and appends to it an
\* encoding that JVMS gives to its instruction
C8_JvmsBytes ==
    (Called /\ bc_last.res.ok) =>
        /\ SubSeq(code, 1, Len(bc_last.pre.code)) = bc_last.pre.code
        /\ Appended \in JvmsEncodings(bc_last.instr, bc_last.arg)

\* C9: a load or store of a local n < max_locals appends the specific opcode for
\* n <= 3, the generic opcode and one index byte for 4 <= n <= 255, and 0xC4, the
\* generic opcode and the index as two big-endian bytes for n >= 256
C9_LocalFormSelection ==
    (Called /\ bc_last.instr \in Loads \cup Stores /\ bc_last.arg < bc_last.pre.max_locals) =>
        code = bc_last.pre.code \o LocalForm(bc_last.instr, bc_last.arg)

\* C10: a load or store returns LocalIndexOutOfBounds when it is called with a
\* local index >= max_locals, and only then
C10_LocalIndexChecked ==
    (Called /\ bc_last.instr \in Loads \cup Stores) =>
        (bc_last.res = Err("LocalIndexOutOfBounds")
            <=> bc_last.arg >= bc_last.pre.max_locals)

\* C10: a two-slot store on an empty stack, which stack_update rejects as well,
\* called with the first index that is out of bounds, after a call that appended
\* the four bytes of the wide form
C10_Witness ==
    /\ bc_last.instr = "dstore"
    /\ bc_last.arg = bc_last.pre.max_locals
    /\ bc_last.pre.stack = 0
    /\ bc_last.res = Err("LocalIndexOutOfBounds")
    /\ bc_hist.calls = 2
    /\ Len(bc_last.pre.code) = 4

\* C27: a call of an instruction that returns an error leaves the Bytecode as it
\* was before the call: no byte is appended to the code, and stack and max_stack
\* keep their values
C27_FailedCallNoEffect ==
    (Called /\ ~bc_last.res.ok) => Self = bc_last.pre

\* C28: a load that succeeds raises the stack counter by 1, by 2 for lload and
\* dload, and a store that succeeds lowers it by as much, whichever form of the
\* instruction the index selects
C28_LocalStackEffect ==
    (Called /\ bc_last.instr \in Loads \cup Stores /\ bc_last.res.ok) =>
        stack = bc_last.pre.stack + JvmsStackEffect(bc_last.instr).push
                                  - JvmsStackEffect(bc_last.instr).pop

\* C11: instr_iinc called with a local variable index >= max_locals returns
\* LocalIndexOutOfBounds
C11_IincIndexChecked ==
    (Called /\ bc_last.instr = "iinc" /\ bc_last.arg.index >= bc_last.pre.max_locals) =>
        bc_last.res = Err("LocalIndexOutOfBounds")

\* C12: a call that succeeds returns the offset at which its instruction began:
\* the length of the code before the call
C12_ReturnsStartOffset ==
    (Called /\ bc_last.res.ok) => bc_last.res.val = Len(bc_last.pre.code)

\* the invoke instructions that take a receiver, and those that do not
ReceiverInvokes == {"invokeinterface", "invokespecial", "invokevirtual"}

StaticInvokes == {"invokestatic", "invokedynamic"}

BranchForm(offset, short_opcode, wide_opcode) ==
    IF offset[1] = 0
    THEN <<short_opcode, offset[2] \div 256, offset[2] % 256>>
    ELSE <<wide_opcode, offset[1] \div 256, offset[1] % 256,
           offset[2] \div 256, offset[2] % 256>>

\* C14: instr_goto and instr_jsr append 0xA7 / 0xA8 and a two-byte big-endian
\* offset when the target is at most 65535, else 0xC8 / 0xC9 and a four-byte
\* big-endian offset
C14_BranchWidth ==
    /\ (Called /\ bc_last.instr = "goto") =>
           code = bc_last.pre.code \o BranchForm(bc_last.arg, 167, 200)
    /\ (Called /\ bc_last.instr = "jsr") =>
           code = bc_last.pre.code \o BranchForm(bc_last.arg, 168, 201)

\* C14: a jsr to 65535 in the short form, then a goto to 65538 in the wide form
C14_Witness ==
    /\ bc_last.instr = "goto"
    /\ bc_last.arg = <<1, 2>>
    /\ code = <<168, 255, 255, 200, 0, 1, 0, 2>>

\* JVMS 6.5: the (pop, push) pairs, in slots, of the instructions that C15 names
JvmsPair(instr) ==
    CASE instr = "goto" -> [pop |-> 0, push |-> 0]
      [] instr \in {"checkcast", "instanceof", "newarray", "athrow"} -> [pop |-> 1, push |-> 1]
      [] instr = "lcmp" -> [pop |-> 4, push |-> 1]

\* C15: an instruction applies the pair of JVMS to the stack counter: on a stack
\* that holds what it pops it succeeds and moves the counter by push - pop, and
\* on a stack that holds less it returns CorruptedStack
C15_JvmsPairs ==
    (Called /\ bc_last.instr \in {"goto", "checkcast", "instanceof", "athrow", "lcmp"}
        \cup (IF bc_last.instr = "newarray" /\ bc_last.arg \notin {"Class", "Array"}
              THEN {"newarray"} ELSE {})) =>
        IF bc_last.pre.stack >= JvmsPair(bc_last.instr).pop
        THEN /\ bc_last.res.ok
             /\ stack = bc_last.pre.stack - JvmsPair(bc_last.instr).pop
                                          + JvmsPair(bc_last.instr).push
        ELSE bc_last.res = Err("CorruptedStack")

-----------------------------------------------------------------------------
(* The class file: what is claimed of it.                                  *)

\* JVMS 4.4.7: a CONSTANT_Utf8_info of the string `s`
JvmsUtf8(s) == <<1>> \o to_be_bytes(StringLen(s)) \o into_bytes(s)

\* the class that Class::new makes of major version 58, the flags Public, Final
\* and Super and the two names
MinimalClass(this_class, super_class) ==
    Class_new(ClassfileVersion(58, 0), {"Public", "Final", "Super"}, this_class, super_class)

\* C16: a Class made with major version 58, the flags Public, Final and Super and
\* two distinct names has the pool Utf8 this-name at 1, Class at 2, Utf8 super-name
\* at 3, Class at 4 and nothing more, and is written as CA FE BA BE, minor 0,
\* major 58, constant_pool_count 5, the four entries in their order, the flags
\* 0x0031, this_class 2, super_class 4 and the four counts, all 0
C16_MinimalClassLayout ==
    \A this_class \in ClassNames, super_class \in ClassNames :
        (/\ this_class # super_class
         /\ class_last.op = "write_to_classfile"
         /\ the_class = MinimalClass(this_class, super_class)) =>
            /\ the_class.const_pool =
                   <<Empty, Utf8(into_bytes(this_class)), ConstClassInfo(1),
                     Utf8(into_bytes(super_class)), ConstClassInfo(3)>>
            /\ class_last.res.val =
                   <<202, 254, 186, 190, 0, 0, 0, 58, 0, 5>>
                       \o JvmsUtf8(this_class) \o <<7, 0, 1>>
                       \o JvmsUtf8(super_class) \o <<7, 0, 3>>
                       \o <<0, 49, 0, 2, 0, 4, 0, 0, 0, 0, 0, 0, 0, 0>>

\* C16: the class of the names "a" and "b" was written, in 38 bytes
C16_Witness ==
    /\ class_last.op = "write_to_classfile"
    /\ the_class = MinimalClass(Str(<<97>>, 1), Str(<<98>>, 1))
    /\ Len(class_last.res.val) = 38

\* the attributes that a class holds: its own, those of its fields, and those
\* nested in these
Held(self) ==
    LET outer == {self.attributes[i] : i \in DOMAIN self.attributes}
                 \cup UNION {{self.fields[f].attributes[i] :
                                 i \in DOMAIN self.fields[f].attributes} :
                             f \in DOMAIN self.fields}
    IN outer \cup UNION {{a.info.body.attributes[i] : i \in DOMAIN a.info.body.attributes} :
                         a \in outer}

\* the bytes of the body of an attribute, as C17 counts them
JvmsLength(attribute) ==
    CASE attribute.info.kind \in {"Synthetic", "Deprecated"} -> 0
      [] attribute.info.kind \in {"ConstantValue", "SourceFile", "Signature"} -> 2
      [] attribute.info.kind = "Custom" -> Len(attribute.info.payload)
      [] attribute.info.kind = "Code" ->
             12 + Len(attribute.info.body.code)
                + 8 * Len(attribute.info.body.exception_tables)
                + Len(write_each(attributes_written(attribute.info.body.attributes)))

\* C17: every attribute of a class that is written is written as its name index,
\* a u4 length and as many bytes of body as the length says: 0 for Synthetic and
\* Deprecated, 2 for ConstantValue, SourceFile and Signature, the length of the
\* payload for a custom attribute, and 12 + the length of the code + 8 for each
\* exception table + the bytes of the nested attributes for Code
C17_AttributeLength ==
    class_last.op = "write_to_classfile" =>
        \A attribute \in Held(the_class) :
            /\ SubSeq(NamedAttribute_write_to_classfile(attribute), 1, 2)
                   = to_be_bytes(attribute.name)
            /\ SubSeq(NamedAttribute_write_to_classfile(attribute), 3, 6)
                   = to_be_bytes_u32(U32(JvmsLength(attribute)))
            /\ Len(NamedAttribute_write_to_classfile(attribute)) = 6 + JvmsLength(attribute)

\* C17: a class was written that holds a Code attribute of two bytes of code, two
\* exception tables and a nested attribute, 37 bytes of body in all
C17_Witness ==
    /\ class_last.op = "write_to_classfile"
    /\ \E attribute \in Held(the_class) :
           /\ attribute.info.kind = "Code"
           /\ Len(attribute.info.body.code) = 2
           /\ Len(attribute.info.body.exception_tables) = 2
           /\ Len(attribute.info.body.attributes) = 1
           /\ JvmsLength(attribute) = 37

\* the calls that add an attribute to a field
FieldOps ==
    {"field_add_const_value_attribute", "field_add_synthetic_attribute",
     "field_add_deprecated_attribute", "field_add_signature_attribute",
     "field_add_custom_attribute"}

\* C20: the k-th add_field that succeeds returns k - 1; a field_add_*_attribute
\* with the index i returns InvalidFieldIndex exactly when i is at least the
\* number of fields added so far, and then the class, with its fields, their
\* attributes and its pool, is as it was; an index that add_field returned is
\* never rejected as InvalidFieldIndex
C20_FieldIndexValid ==
    /\ (class_last.op = "add_field" /\ class_last.res.ok) =>
           class_last.res.val = class_last.added - 1
    /\ class_last.op \in FieldOps =>
           /\ class_last.res = Err("InvalidFieldIndex")
                  <=> class_last.arg.field_index >= class_last.added
           /\ class_last.res = Err("InvalidFieldIndex") => the_class = class_last.pre
           /\ class_last.arg.field_index \in class_last.returned =>
                  class_last.res # Err("InvalidFieldIndex")

\* C20: the second add_field returned 1, and an attribute was added to the field 1
C20_Witness ==
    /\ class_last.op \in FieldOps
    /\ class_last.added = 2
    /\ class_last.returned = {0, 1}
    /\ class_last.arg.field_index = 1
    /\ class_last.res.ok
    /\ Len(the_class.fields[2].attributes) = 1

-----------------------------------------------------------------------------
(* The vectors: what is claimed of them.                                   *)

\* C18: a vector of any of the three widths never holds more than MAX_SIZE
\* elements; a push on a vector of fewer elements appends the element and
\* returns the length before it, the index of the element; a push on a vector of
\* MAX_SIZE elements returns OutOfBounds and leaves the vector as it was
C18_BoundedPush ==
    /\ ~U32Less(JvmVec_MAX_SIZE[jvm_vec.width], JvmVec_len(jvm_vec))
    /\ vec_last.pushes > 0 =>
           IF JvmVec_len(vec_last.pre) # JvmVec_MAX_SIZE[jvm_vec.width]
           THEN /\ jvm_vec.fill = vec_last.pre.fill
                /\ jvm_vec.rest = Append(vec_last.pre.rest, vec_last.element)
                /\ vec_last.res = Ok(JvmVec_len(vec_last.pre))
                /\ JvmVec_len(jvm_vec) = U32Plus(JvmVec_len(vec_last.pre), 1)
           ELSE /\ vec_last.res = Err("OutOfBounds")
                /\ jvm_vec = vec_last.pre

\* C18: a JvmVecU4 of 2^32 - 1 elements was pushed to, and is as it was
C18_Witness ==
    /\ jvm_vec.width = "U4"
    /\ vec_last.pushes > 0
    /\ JvmVec_len(vec_last.pre) = <<65535, 65535>>
    /\ vec_last.res = Err("OutOfBounds")
    /\ jvm_vec.rest = <<1, 2>>

-----------------------------------------------------------------------------
(* The pool that is full: what is claimed of it.                           *)

\* the slots of the pool that hold the entry `e`
SlotsOf(self, e) ==
    FilledSlots(self, e)
        \cup {self.fill[2] + i - 1 : i \in {j \in DOMAIN self.rest : self.rest[j] = e}}

\* the entries that the call `op` asks for one after the other: a Class asks for
\* the Utf8 of its name and then for the Class of the slot that holds the name
AskedEntries(self, op) ==
    CASE op.fn = "store_const_integer_info" -> {ConstIntegerInfo(op.v)}
      [] op.fn = "store_const_utf8_info" -> {Utf8(into_bytes(op.s1))}
      [] op.fn = "store_const_class_info" ->
             {Utf8(into_bytes(op.s1))}
                 \cup {ConstClassInfo(slot) : slot \in SlotsOf(self, Utf8(into_bytes(op.s1)))}

\* the entry that the call `op` returns the index of
ReturnedEntries(self, op) ==
    IF op.fn = "store_const_class_info"
    THEN {ConstClassInfo(slot) : slot \in SlotsOf(self, Utf8(into_bytes(op.s1)))}
    ELSE AskedEntries(self, op)

\* C19: a store into a pool that holds all the slots it can hold returns
\* OutOfSpace and leaves the pool as it was if an entry it asks for is not in the
\* pool, and returns the index of the entry, the pool as it was, if it is
C19_FullPool ==
    (vec_last.pushes > 0 /\ JvmVec_len(vec_last.pre) = <<0, 65535>>) =>
        /\ jvm_vec = vec_last.pre
        /\ IF \E e \in AskedEntries(vec_last.pre, vec_last.element) :
                  SlotsOf(vec_last.pre, e) = {}
           THEN vec_last.res = Err("OutOfSpace")
           ELSE /\ vec_last.res.ok
                /\ \E e \in ReturnedEntries(vec_last.pre, vec_last.element) :
                       vec_last.res.val \in SlotsOf(vec_last.pre, e)

\* C19: the Utf8 "a" and its Class fill the pool at the slots 65533 and 65534,
\* and the third store, of the Utf8 "b", is refused and leaves the pool as it was
C19_Witness ==
    /\ vec_last.pushes = 3
    /\ JvmVec_len(vec_last.pre) = <<0, 65535>>
    /\ vec_last.pre.rest = <<Utf8(<<97>>), ConstClassInfo(65533)>>
    /\ vec_last.element.fn = "store_const_utf8_info"
    /\ vec_last.element.s1 = Str(<<98>>, 1)
    /\ vec_last.res = Err("OutOfSpace")
    /\ jvm_vec = vec_last.pre

-----------------------------------------------------------------------------
(* The flags: what is claimed of them.                                     *)

\* the flags whose last call was set
LastSet == {flag \in DOMAIN ClassAccessFlag : flags_last.recent[flag] = "set"}

\* C26: after none() and any calls of set and unset, is_set(f) holds exactly if
\* the last call for f was set, a call for f leaves is_set of every other flag as
\* it was, and the u16 that is written is the bitwise or of the masks of the
\* flags that are set
C26_FlagSet ==
    /\ \A flag \in DOMAIN ClassAccessFlag :
           /\ Flags_is_set(mask_flags, flag) <=> flag \in LastSet
           /\ (flags_last.calls > 0 /\ flag # flags_last.flag) =>
                  (Flags_is_set(mask_flags, flag) <=> Flags_is_set(flags_last.pre, flag))
    /\ ClassAccessFlags_write_to_classfile(mask_flags) =
           to_be_bytes(u16_of_bits(UNION {u16_bits(ClassAccessFlag[flag]) : flag \in LastSet}))

\* C26: Super was unset after it had been set, while Public and Enum stay set
C26_Witness ==
    /\ flags_last.op = "unset"
    /\ flags_last.flag = "Super"
    /\ Flags_is_set(flags_last.pre, "Super")
    /\ LastSet = {"Public", "Enum"}
    /\ ClassAccessFlags_write_to_classfile(mask_flags) = <<64, 1>>

-----------------------------------------------------------------------------
(* The field that is full: what is claimed of it.                          *)

\* C30: a field_add_*_attribute that returns Ok has made the attributes of the
\* field it was called for longer by one; and called for a field that holds all
\* the attributes it can hold, it returns an error
C30_OkAppendsOne ==
    (class_last.calls > 0 /\ class_last.op \in FieldOps
        /\ class_last.arg.field_index < Len(class_last.pre.fields)) =>
        /\ class_last.res.ok =>
               JvmVec_len(the_class.fields[class_last.arg.field_index + 1].attributes)
                   = U32Plus(JvmVec_len(class_last.pre.fields[class_last.arg.field_index + 1].attributes), 1)
        /\ JvmVec_len(class_last.pre.fields[class_last.arg.field_index + 1].attributes)
               = <<0, 65535>> => ~class_last.res.ok

-----------------------------------------------------------------------------
(* The parser: what is claimed of it.                                      *)

\* the integer literals that the text is one of
Written == {literal \in IntegerLiterals : literal.text = input}

\* the number of Numbers that has the name
Numbered(name) == CHOOSE n \in Numbers : n.number = name

\* C21: the decimal int literal 2147483648 parses to Int(i32::MIN) and every
\* decimal int literal above it fails; the decimal long literal 2^63 with the
\* suffix L parses to Long(i64::MIN) and every decimal long literal above it fails
C21_DecimalBoundary ==
    \A literal \in Written :
        /\ (literal.radix = 10 /\ literal.suffix = <<>>
                /\ parsed.rule = "int_literal_expression") =>
               /\ literal.number.number = "2^31" =>
                      parsed.res = Ok(Literal("Int", -2147483647 - 1))
               /\ literal.number.order > Numbered("2^31").order => ~parsed.res.ok
        /\ (literal.radix = 10 /\ literal.suffix = <<"L">>
                /\ parsed.rule = "long_literal_expression") =>
               /\ literal.number.number = "2^63" =>
                      parsed.res = Ok(Literal("Long", [neg |-> TRUE, abs |-> <<32768, 0, 0, 0>>]))
               /\ literal.number.order > Numbered("2^63").order => ~parsed.res.ok

RuleOf(kind) ==
    IF kind = "Float" THEN "float_literal_expression" ELSE "double_literal_expression"

\* C23: a hex floating point literal parses to its hex significand times two to
\* the power of its exponent: 0xA.Bp1f to Float(21.375)
C23_HexFloat ==
    \A hex_literal \in HexFloatLiterals :
        (input = hex_literal.text /\ parsed.rule = RuleOf(hex_literal.kind)) =>
            parsed.res = Ok(Literal(hex_literal.kind, hex_literal.value))

\* C24, as it is stated: a reserved word parses to its keyword and is no
\* identifier; a reserved word with identifier symbols after it is no keyword
\* and parses to the identifier of the whole text
C24_KeywordOrIdentifier ==
    /\ \A i \in DOMAIN Keywords :
           input = Keywords[i].text =>
               /\ parsed.rule = "keyword_expression" =>
                      parsed.res = Ok(Keyword(Keywords[i].keyword))
               /\ parsed.rule = "identifier_expression" => ~parsed.res.ok
    /\ \A suffixed \in SuffixedKeywords :
           input = suffixed.text =>
               /\ parsed.rule = "keyword_expression" => ~parsed.res.ok
               /\ parsed.rule = "identifier_expression" => parsed.res = Ok(Identifier(input))

\* C24, amended: a reserved word parses to its keyword and is no identifier; a
\* reserved word with identifier symbols after it, where the whole is not a
\* reserved word itself, is no keyword and parses to the identifier of the whole
\* text
C24_Amended ==
    /\ \A i \in DOMAIN Keywords :
           input = Keywords[i].text =>
               /\ parsed.rule = "keyword_expression" =>
                      parsed.res = Ok(Keyword(Keywords[i].keyword))
               /\ parsed.rule = "identifier_expression" => ~parsed.res.ok
    /\ \A suffixed \in SuffixedKeywords :
           (input = suffixed.text /\ suffixed.text \notin KeywordTexts) =>
               /\ parsed.rule = "keyword_expression" => ~parsed.res.ok
               /\ parsed.rule = "identifier_expression" => parsed.res = Ok(Identifier(input))

\* C24: `integer` is parsed to the identifier of this name
C24_Witness ==
    /\ input = <<"i", "n", "t", "e", "g", "e", "r">>
    /\ parsed.rule = "identifier_expression"
    /\ parsed.res = Ok(Identifier(input))

\* C25: a public rule succeeds only on a text that it matches to the end: a
\* token with white space or more after it is an error of every rule, and a
\* keyword, a boolean, the null and an identifier are the whole text
C25_WholeInput ==
    /\ (input \in TrailedTokens /\ parsed # NotParsed) => ~parsed.res.ok
    /\ (parsed.rule = "keyword_expression" /\ parsed.res.ok) => input \in KeywordTexts
    /\ (parsed.rule = "boolean_literal_expression" /\ parsed.res.ok) =>
           input \in {<<"t", "r", "u", "e">>, <<"f", "a", "l", "s", "e">>}
    /\ (parsed.rule = "null_literal_expression" /\ parsed.res.ok) =>
           input = <<"n", "u", "l", "l">>
    /\ (parsed.rule = "identifier_expression" /\ parsed.res.ok) =>
           \A i \in DOMAIN input : input[i] \in identifier_symbol

\* C25: `while ago` is an error of keyword_expression
C25_Witness ==
    /\ input = <<"w", "h", "i", "l", "e", " ", "a", "g", "o">>
    /\ parsed.rule = "keyword_expression"
    /\ ~parsed.res.ok

\* C29: a decimal floating point literal with integer digits and fractional
\* digits parses to the number that the digits are, each at its place: the zeros
\* before the digits of the fraction count
C29_DecimalDigits ==
    \A decimal_literal \in DecimalFloatLiterals :
        (input = decimal_literal.text /\ parsed.rule = RuleOf(decimal_literal.kind)) =>
            parsed.res = Ok(Literal(decimal_literal.kind,
                                    Decimal(FALSE,
                                            decimal_literal.integer \o decimal_literal.fraction,
                                            decimal_literal.exponent
                                                - Len(decimal_literal.fraction))))

====
